---- MODULE Spec2Model ----
(***************************************************************************)
(* A model of the BinDiff differ engine (src/differ.cc): the matcher       *)
(* engine Diff, the export readers, and the counting / confidence /        *)
(* similarity layer.  Each subsystem has a specification of its own over   *)
(* its own variables; the variables of the other subsystems stay idle.     *)
(***************************************************************************)
EXTENDS Integers, Sequences, FiniteSets, TLC

(***************************************************************************)
(* Bounds of the model.                                                    *)
(***************************************************************************)
\* Largest number of functions (call-graph vertices) of one program in Diff.
MaxFunctions == 2
\* Length of default_call_graph_steps handed to Diff.
NumSteps == 2
\* Largest number of pairs one FindFixedPoints invocation tries to insert.
MaxAttempts == 1
\* Largest number of GetCountsAndHistogram calls on one Histogram and Counts.
MaxCalls == 2
\* Largest number of reads into the flow-graph sets of one cleanup owner.
MaxReads == 2
\* Largest number of positional arguments of one run of the config utility.
MaxArgs == 2

\* The most command-line arguments of a run that leave no trace in what
\* absl::ParseCommandLine finds.
MaxExtra == 1

VARIABLES
    \* ---- MatchingContext and the position of Diff (src/differ.cc:405-478)
    primary_call_graph_,      \* context->primary_call_graph_
    secondary_call_graph_,    \* context->secondary_call_graph_
    context,                  \* fixed_points_, new_fixed_points_, and the
                              \* fixed-point pointer of every flow graph
    matching_steps_for_current_level,
    pc,                       \* position of Diff
    cursor,                   \* iterator into context->fixed_points_
    more_fixed_points_discovered,
    callref_todo,             \* new_fixed_points_ still ahead of the iterator
    last_call,                \* arguments of the latest FindFixedPoints call
    passes,                   \* passes of the do-while loop in this level
    classified,               \* number of ClassifyChanges calls
    levels,                   \* what every rigor level begun so far saw
    \* ---- the containers handed to the export readers, and the reader
    reader,                   \* call graph, flow graphs, infos, cache, log
    read_file,                \* the file of the latest read
    \* ---- the programs that are scored and the caller of the scoring
    program1,                 \* primary call graph and its flow graphs
    program2,                 \* secondary call graph and its flow graphs
    scored_fixed_points,      \* the FixedPoints handed to the counting
    caller_histogram,         \* the caller's Histogram
    caller_counts,            \* the caller's Counts
    count_calls,              \* number of GetCountsAndHistogram calls
    program_similarity,       \* latest whole-program similarity
    flow_graph_similarity,    \* latest similarity of a matched pair
    \* ---- a ScopedCleanup, the containers it owns, and their heap objects
    scoped_cleanup,
    \* ---- the config file, the plugin links, and the latest run of the
    \* ---- configuration utility
    config_setup

diff_vars == <<primary_call_graph_, secondary_call_graph_, context,
               matching_steps_for_current_level, pc, cursor,
               more_fixed_points_discovered, callref_todo, last_call, passes,
               classified, levels>>

read_vars == <<reader, read_file>>

score_vars == <<program1, program2, scored_fixed_points, caller_histogram,
                caller_counts, count_calls, program_similarity,
                flow_graph_similarity>>

vars == <<diff_vars, read_vars, score_vars, scoped_cleanup, config_setup>>

\* What the actions of one subsystem leave alone.
other_than_diff == <<read_vars, score_vars, scoped_cleanup, config_setup>>

other_than_read == <<diff_vars, score_vars, scoped_cleanup, config_setup>>

other_than_score == <<diff_vars, read_vars, scoped_cleanup, config_setup>>

(***************************************************************************)
(* Helpers.                                                                *)
(***************************************************************************)
Range(s) == {s[i] : i \in DOMAIN s}

SeqsUpTo(S, n) == UNION {[1..k -> S] : k \in 0..n}

(***************************************************************************)
(* Program model for Diff.  A call graph has vertices 1..n (ordered by     *)
(* address) and a set of call edges, an edge carrying the duplicate flag.  *)
(* After a load every vertex owns a flow graph, identified by its vertex.  *)
(***************************************************************************)
Edge(s, t, d) == [source |-> s, target |-> t, duplicate |-> d]

Chain(n) == [n |-> n, edges |-> {Edge(i, i + 1, FALSE) : i \in 1..(n - 1)}]

\* Vertex 1 calls every other vertex twice: the second call site is flagged
\* duplicate.
Star(n) ==
    [n |-> n,
     edges |-> {Edge(1, i, FALSE) : i \in 2..n} \cup
               {Edge(1, i, TRUE) : i \in 2..n}]

\* A chain closed by a back edge, with a duplicate-only call from 1 to n.
Cycle(n) ==
    [n |-> n,
     edges |-> {Edge(i, i + 1, FALSE) : i \in 1..(n - 1)} \cup
               {Edge(n, 1, FALSE) : i \in 2..n} \cup
               {Edge(1, n, TRUE) : i \in 3..n}]

\* A chain in which every callee has a call back to its caller that is
\* flagged duplicate: the caller is reachable from it by that edge alone.
BackCalls(n) ==
    [n |-> n,
     edges |-> {Edge(i, i + 1, FALSE) : i \in 1..(n - 1)} \cup
               {Edge(i + 1, i, TRUE) : i \in 1..(n - 1)}]

\* The call graphs that are diffed.  A cycle has a duplicate-only edge from
\* three functions on; BackCalls(2) has one with two functions.
CallGraphs ==
    UNION {{Chain(n), Star(n), Cycle(n)} : n \in 0..MaxFunctions}
        \cup {BackCalls(n) : n \in 2..2}

Vertices(call_graph) == 1..call_graph.n

\* The step registry: names of the call-graph matching steps, in order.
StepNames ==
    <<"function: hash matching", "function: edges flowgraph MD index",
      "function: call sequence matching", "function: loop count matching">>

default_call_graph_steps == SubSeq(StepNames, 1, NumSteps)

kFunctionCallReferenceName == "function: call reference matching"

\* The null FixedPoint* of a flow graph that is not matched.
NoFixedPoint == [primary |-> 0, secondary |-> 0, step |-> "none"]

FixedPoint(p, s, name) == [primary |-> p, secondary |-> s, step |-> name]

(***************************************************************************)
(* GetUnmatchedChildren / GetUnmatchedParents (src/differ.cc:46-90).       *)
(* flow_graphs maps a vertex to the fixed point of its flow graph          *)
(* (GetFixedPoint()), NoFixedPoint when unmatched.                         *)
(***************************************************************************)
GetFlowGraph(call_graph, vertex) ==
    IF vertex \in Vertices(call_graph) THEN vertex ELSE 0

GetUnmatchedChildrenNoFilter(call_graph, vertex, flow_graphs) ==
    {e.target : e \in {x \in call_graph.edges :
                         /\ x.source = vertex
                         /\ ~x.duplicate
                         /\ GetFlowGraph(call_graph, x.target) # 0}}

GetUnmatchedChildren(call_graph, vertex, flow_graphs) ==
    {e.target : e \in {x \in call_graph.edges :
                         /\ x.source = vertex
                         /\ ~x.duplicate
                         /\ GetFlowGraph(call_graph, x.target) # 0
                         /\ flow_graphs[x.target] = NoFixedPoint}}

GetUnmatchedParentsWithDuplicates(call_graph, vertex, flow_graphs) ==
    {e.source : e \in {x \in call_graph.edges :
                         /\ x.target = vertex
                         /\ GetFlowGraph(call_graph, x.source) # 0
                         /\ flow_graphs[x.source] = NoFixedPoint}}

GetUnmatchedParents(call_graph, vertex, flow_graphs) ==
    {e.source : e \in {x \in call_graph.edges :
                         /\ x.target = vertex
                         /\ ~x.duplicate
                         /\ GetFlowGraph(call_graph, x.source) # 0
                         /\ flow_graphs[x.source] = NoFixedPoint}}

(***************************************************************************)
(* The fixed-point store and the matching steps.  Their code is not in     *)
(* src/; they are modelled from the design document: insert fails when     *)
(* either side is already matched, otherwise it stores the fixed point,    *)
(* records it in new_fixed_points and marks both flow graphs as matched.   *)
(***************************************************************************)
AddFixedPoint(ctx, p, s, name) ==
    IF \/ ctx.primary_flow_graphs_[p] # NoFixedPoint
       \/ ctx.secondary_flow_graphs_[s] # NoFixedPoint
    THEN ctx
    ELSE LET fp == FixedPoint(p, s, name)
         IN  [ctx EXCEPT !.fixed_points_ = @ \cup {fp},
                         !.new_fixed_points_ = @ \cup {fp},
                         !.primary_flow_graphs_[p] = fp,
                         !.secondary_flow_graphs_[s] = fp]

\* A matching step proposes pairs among its candidates, in some order, and
\* inserts each of them.
RECURSIVE InsertAll(_, _, _)
InsertAll(ctx, attempts, name) ==
    IF attempts = <<>>
    THEN ctx
    ELSE InsertAll(AddFixedPoint(ctx, Head(attempts)[1], Head(attempts)[2],
                                 name),
                   Tail(attempts), name)

Attempts(primary, secondary) == SeqsUpTo(primary \X secondary, MaxAttempts)

\* The result of step->FindFixedPoints: whether a fixed point was added.
Discovered(before, after) == after.fixed_points_ # before.fixed_points_

(***************************************************************************)
(* Iteration over context->fixed_points_, an ordered set: the iterator     *)
(* moves to the successor of the element it stands on, so an element       *)
(* inserted behind it during a pass is not visited in that pass.           *)
(***************************************************************************)
Ahead(ctx, position) ==
    {fp \in ctx.fixed_points_ : fp.primary > position}

NextFixedPoint(ctx, position) ==
    CHOOSE fp \in Ahead(ctx, position) :
        \A other \in Ahead(ctx, position) : fp.primary <= other.primary

\* The arguments of a FindFixedPoints invocation, with the candidates that
\* were matched already when the step was invoked.
NoCall ==
    [kind |-> "none", parent |-> NoFixedPoint, primary |-> {},
     secondary |-> {}, matching_steps |-> <<>>, step |-> "none",
     primary_matched |-> {}, secondary_matched |-> {}]

Call(ctx, kind, parent, primary, secondary, steps) ==
    [kind |-> kind, parent |-> parent, primary |-> primary,
     secondary |-> secondary, matching_steps |-> steps,
     step |-> Head(steps),
     primary_matched |->
         {v \in primary : ctx.primary_flow_graphs_[v] # NoFixedPoint},
     secondary_matched |->
         {v \in secondary : ctx.secondary_flow_graphs_[v] # NoFixedPoint}]

(***************************************************************************)
(* Diff (src/differ.cc:405-478): the matching context before the diff.     *)
(***************************************************************************)
EmptyContext(cg1, cg2) ==
    [fixed_points_ |-> {},
     new_fixed_points_ |-> {},
     primary_flow_graphs_ |-> [v \in Vertices(cg1) |-> NoFixedPoint],
     secondary_flow_graphs_ |-> [v \in Vertices(cg2) |-> NoFixedPoint]]

(***************************************************************************)
(* Unsigned 32-bit header fields (uint32_t, src/differ.cc:162, 174, 190):  *)
(* a value is the pair of its 16-bit halves, so that differences wrap      *)
(* modulo 2^32 exactly.                                                    *)
(***************************************************************************)
ToU32(n) == <<n \div 65536, n % 65536>>

Add32(a, b) ==
    <<(a[1] + b[1] + ((a[2] + b[2]) \div 65536)) % 65536,
      (a[2] + b[2]) % 65536>>

Less32(a, b) == a[1] < b[1] \/ (a[1] = b[1] /\ a[2] < b[2])

\* The uint32_t difference a - b.
Sub32(a, b) ==
    <<(a[1] - b[1] - (IF a[2] < b[2] THEN 1 ELSE 0)) % 65536,
      (a[2] - b[2]) % 65536>>

\* QCHECK_LT(size, 500000000), src/differ.cc:163, 176, 192.
kMaxRecordSize == 500000000

SizeCheck(size) == Less32(size, ToU32(kMaxRecordSize))

(***************************************************************************)
(* Export files.  A file either parses as one BinExport2 message or it     *)
(* does not; a legacy file has a header of offsets and one record per      *)
(* offset pair.  bad is the first record (1 meta, 2 call graph, 2 + i the  *)
(* i-th flow graph) whose bytes cannot be read or parsed, 0 when all can.  *)
(***************************************************************************)
\* A flow graph: the instruction count of every basic block, the edges
\* between basic blocks, and the mnemonics its instructions intern.
FlowGraph(address, instructions, edges, mnemonics) ==
    [address |-> address, instructions |-> instructions, edges |-> edges,
     mnemonics |-> mnemonics]

NoFlowGraph == FlowGraph(0, <<>>, <<>>, {})

\* Three functions (address :> library flag): one with two basic blocks, a
\* library function whose exported flow graph is empty, and an import that
\* has no flow graph in the export.
ProgramA ==
    [input_binary |-> "a.exe",
     functions |-> (16 :> FALSE) @@ (32 :> TRUE) @@ (48 :> FALSE),
     flow_graphs |-> <<FlowGraph(16, <<2, 1>>, <<<<1, 2>>>>, {"mov", "call"}),
                       FlowGraph(32, <<>>, <<>>, {})>>]

ProgramB ==
    [input_binary |-> "b.exe",
     functions |-> (16 :> FALSE),
     flow_graphs |-> <<FlowGraph(16, <<3>>, <<<<1, 1>>>>, {"mov", "ret"})>>]

ProgramEmpty ==
    [input_binary |-> "", functions |-> <<>>, flow_graphs |-> <<>>]

Programs == {ProgramA, ProgramB, ProgramEmpty}

Records(program) == Len(program.flow_graphs) + 2

\* Header offsets: meta_offset, call_graph_offset, flow_graph_offsets[0..n].
\* They ascend from base in steps of 256, but for the pair of record
\* anomaly, whose second offset is the first plus delta (modulo 2^32).
RECURSIVE Offsets(_, _, _, _)
Offsets(base, count, anomaly, delta) ==
    IF count = 0
    THEN <<base>>
    ELSE LET prefix == Offsets(base, count - 1, anomaly, delta)
         IN  Append(prefix,
                    Add32(prefix[count],
                          IF count = anomaly THEN delta ELSE ToU32(256)))

HeaderBases == {ToU32(256), <<61035, 10240>>}     \* 256 and 4,000,000,000

AnomalyDeltas ==
    {ToU32(kMaxRecordSize), ToU32(kMaxRecordSize - 1), ToU32(600000000),
     <<65535, 65436>>}                             \* the last: 2^32 - 100

LegacyFile(program, bad, offsets) ==
    [exists |-> TRUE, binexport2 |-> FALSE, header_ok |-> TRUE,
     program |-> program, bad |-> bad, offsets |-> offsets]

LegacyFiles ==
    UNION {{LegacyFile(program, bad,
                       Offsets(base, Records(program), anomaly, delta)) :
                bad \in 0..Records(program), base \in HeaderBases,
                anomaly \in 0..Records(program), delta \in AnomalyDeltas} :
           program \in Programs}

NoHeader == <<ToU32(0)>>

BinExport2Files ==
    {[exists |-> TRUE, binexport2 |-> TRUE, header_ok |-> FALSE,
      program |-> program, bad |-> 0, offsets |-> NoHeader] :
        program \in Programs}

\* A file that is missing, and one that is in neither format.
BrokenFiles ==
    {[exists |-> e, binexport2 |-> FALSE, header_ok |-> FALSE,
      program |-> ProgramEmpty, bad |-> 0, offsets |-> NoHeader] :
        e \in BOOLEAN}

Files == LegacyFiles \cup BinExport2Files \cup BrokenFiles

\* BinExportHeader: the fields the readers use.
meta_offset(file) == file.offsets[1]

call_graph_offset(file) == file.offsets[2]

flow_graph_offsets(file, i) == file.offsets[3 + i]

num_flow_graphs(file) == Len(file.offsets) - 3

(***************************************************************************)
(* The containers a reader fills, with a log of what the reader did.       *)
(***************************************************************************)
Event(op, index, size) == [op |-> op, index |-> index, size |-> size]

EmptyCallGraph == [exe_filename |-> "", vertices |-> <<>>]

\* A FlowGraph on the heap: how often it was deleted, and whether the
\* flow-graph set holds it.
Object(flow_graph) ==
    [flow_graph |-> flow_graph, deletes |-> 0, member |-> TRUE]

\* DeleteFlowGraphs (lines 374-383) on a set that is not null: every member
\* is deleted, then the set is cleared.
DeleteFlowGraphsNoClear(m) ==
    [m EXCEPT !.heap = [i \in DOMAIN @ |->
                           IF @[i].member
                           THEN [@[i] EXCEPT !.deletes = @ + 1]
                           ELSE @[i]]]

DeleteFlowGraphs(m) ==
    [m EXCEPT !.heap = [i \in DOMAIN @ |->
                           IF @[i].member
                           THEN [@[i] EXCEPT !.deletes = @ + 1,
                                             !.member = FALSE]
                           ELSE @[i]],
              !.flow_graphs = {}]

\* A decoder that begins with DeleteFlowGraphs(flow_graphs) alone.
ResetFlowGraphsOnly(m) == DeleteFlowGraphs(m)

\* call_graph->Reset(); DeleteFlowGraphs(flow_graphs);
\* flow_graph_infos->clear();  (lines 116-118, 152-154, 257-259, 281-283)
ResetContainers(m) ==
    [DeleteFlowGraphs(m) EXCEPT !.call_graph = EmptyCallGraph,
                                !.flow_graph_infos = {}]

Log(m, op, index, size) ==
    [m EXCEPT !.log = Append(@, Event(op, index, size))]

Finish(m, status) == [m EXCEPT !.status = status]

\* call_graph->Read(proto, filename): one vertex per function of the export,
\* none of them with a flow graph yet.
CallGraphRead(m, program) ==
    [m EXCEPT !.call_graph.vertices =
        [a \in DOMAIN program.functions |->
            [flow_graph |-> NoFlowGraph, library |-> program.functions[a],
             stub |-> FALSE]]]

\* A FlowGraph constructed for (call_graph, address) is the flow graph of
\* the call-graph vertex at its address.
Attach(call_graph, flow_graph) ==
    IF flow_graph.address \in DOMAIN call_graph.vertices
    THEN [call_graph EXCEPT
             !.vertices[flow_graph.address].flow_graph = flow_graph]
    ELSE call_graph

\* flow_graph->Read(...) and flow_graphs->insert(flow_graph).
InsertFlowGraph(m, flow_graph) ==
    [m EXCEPT !.call_graph = Attach(@, flow_graph),
              !.flow_graphs = @ \cup {flow_graph},
              !.heap = Append(@, Object(flow_graph)),
              !.instruction_cache = @ \cup flow_graph.mnemonics]

RECURSIVE Sum(_)
Sum(s) == IF s = <<>> THEN 0 ELSE Head(s) + Sum(Tail(s))

\* Lines 211-223 and 344-356: the summary of a flow graph just read.
FlowGraphInfo(flow_graph, file_offset) ==
    [address |-> flow_graph.address,
     file_offset |-> file_offset,
     basic_block_count |-> Len(flow_graph.instructions),
     edge_count |-> Len(flow_graph.edges),
     instruction_count |-> Sum(flow_graph.instructions)]

SetFlowGraphInfo(m, info) ==
    [m EXCEPT !.flow_graph_infos =
        {i \in @ : i.address # info.address} \cup {info}]

(***************************************************************************)
(* AddSubsToCallGraph (src/differ.cc:93-109).                              *)
(***************************************************************************)
AddSubsVertexNoLibrary(vertex, address) ==
    IF vertex.flow_graph # NoFlowGraph
    THEN vertex
    ELSE [flow_graph |-> FlowGraph(address, <<>>, <<>>, {}),
          library |-> vertex.library, stub |-> TRUE]

AddSubsVertex(vertex, address) ==
    IF vertex.flow_graph # NoFlowGraph
    THEN vertex
    ELSE [flow_graph |-> FlowGraph(address, <<>>, <<>>, {}),
          library |-> TRUE, stub |-> TRUE]

\* new FlowGraph(call_graph, address) for every flow graph of a set, in the
\* order of the vertices.
RECURSIVE Allocate(_, _)
Allocate(heap, flow_graphs) ==
    IF flow_graphs = {}
    THEN heap
    ELSE LET first == CHOOSE f \in flow_graphs :
                          \A g \in flow_graphs : f.address <= g.address
         IN  Allocate(Append(heap, Object(first)), flow_graphs \ {first})

AddSubsToCallGraph(m) ==
    LET before == m.call_graph.vertices
        after == [a \in DOMAIN before |-> AddSubsVertex(before[a], a)]
        stubs == {after[a].flow_graph :
                    a \in {x \in DOMAIN before :
                             before[x].flow_graph = NoFlowGraph}}
    IN  [m EXCEPT !.before_stubs = before,
                  !.call_graph.vertices = after,
                  !.flow_graphs = @ \cup stubs,
                  !.heap = Allocate(@, stubs)]

(***************************************************************************)
(* The new-format decoders: ReadBinExport2 (lines 254-276) and, in the     *)
(* File-based build, ReadBinExport2Google (lines 112-146), which skips     *)
(* the flow graphs that have no basic block.                               *)
(***************************************************************************)
RECURSIVE ReadFlowGraphs2(_, _, _, _)
ReadFlowGraphs2(m, flow_graphs, i, skip_empty) ==
    IF i > Len(flow_graphs)
    THEN m
    ELSE IF skip_empty /\ flow_graphs[i].instructions = <<>>
         THEN ReadFlowGraphs2(m, flow_graphs, i + 1, skip_empty)
         ELSE ReadFlowGraphs2(
                  Log(InsertFlowGraph(m, flow_graphs[i]), "insert", i,
                      ToU32(0)),
                  flow_graphs, i + 1, skip_empty)

BinExport2Decoder(file, m0, name, skip_empty) ==
    LET m == ResetContainers(Log(m0, name, m0.position, ToU32(0)))
    IN  IF ~(file.exists /\ file.binexport2)
        THEN Finish([m EXCEPT !.position = IF file.exists THEN 1 ELSE 0],
                    "false")
        ELSE LET read == CallGraphRead(
                             [m EXCEPT !.call_graph.exe_filename =
                                           file.program.input_binary,
                                       !.position = 1],
                             file.program)
             IN  Finish(AddSubsToCallGraph(
                            ReadFlowGraphs2(read, file.program.flow_graphs, 1,
                                            skip_empty)),
                        "true")

ReadBinExport2(file, m) == BinExport2Decoder(file, m, "ReadBinExport2", FALSE)

ReadBinExport2Google(file, m) ==
    BinExport2Decoder(file, m, "ReadBinExport2Google", TRUE)

(***************************************************************************)
(* The legacy decoders: ReadBinExport (lines 278-360), which throws, and   *)
(* ReadBinExportGoogle (lines 148-227), whose checks end the process.      *)
(***************************************************************************)
\* Lines 162-169, 174-182, 190-198: the size check, then the buffer of that
\* size is allocated and filled, then the record is parsed.
GoogleRecord(m, file, record, size) ==
    LET checked == Log(m, "check", record, size)
    IN  IF ~SizeCheck(size)
        THEN Finish(checked, "aborted")
        ELSE LET buffered == Log(checked, "buffer", record, size)
             IN  IF file.bad = record
                 THEN Finish(buffered, "aborted")
                 ELSE buffered

\* Lines 300-305, 310-315, 332-336: the record is parsed from the stream
\* under PushLimit(size); no size is refused.
StreamRecord(m, file, record, size) ==
    LET limited == Log(m, "limit", record, size)
    IN  IF file.bad = record
        THEN Finish(limited, "threw")
        ELSE limited

LegacyRecord(m, file, record, size, google) ==
    IF google
    THEN GoogleRecord(m, file, record, size)
    ELSE StreamRecord(m, file, record, size)

\* The flow-graph loop, lines 187-224 and 321-357.
RECURSIVE ReadFlowGraphsLegacy(_, _, _, _)
ReadFlowGraphsLegacy(m, file, i, google) ==
    IF m.status # "running" \/ i >= num_flow_graphs(file)
    THEN m
    ELSE LET size == Sub32(flow_graph_offsets(file, i + 1),
                           flow_graph_offsets(file, i))
             parsed == LegacyRecord(m, file, 3 + i, size, google)
             flow_graph == file.program.flow_graphs[i + 1]
         IN  IF parsed.status # "running"
             THEN parsed
             ELSE IF google /\ flow_graph.instructions = <<>>
                  THEN ReadFlowGraphsLegacy(parsed, file, i + 1, google)
                  ELSE ReadFlowGraphsLegacy(
                           SetFlowGraphInfo(
                               Log(InsertFlowGraph(parsed, flow_graph),
                                   "insert", 3 + i, size),
                               FlowGraphInfo(flow_graph,
                                             flow_graph_offsets(file, i))),
                           file, i + 1, google)

\* The meta record, the call-graph record, the flow graphs, the stubs.
LegacyBody(m, file, google) ==
    LET meta == LegacyRecord(m, file, 1,
                             Sub32(call_graph_offset(file),
                                   meta_offset(file)),
                             google)
        named == [meta EXCEPT !.call_graph.exe_filename =
                                  file.program.input_binary]
        graph == LegacyRecord(named, file, 2,
                              Sub32(flow_graph_offsets(file, 0),
                                    call_graph_offset(file)),
                              google)
        flow == ReadFlowGraphsLegacy(CallGraphRead(graph, file.program),
                                     file, 0, google)
    IN  IF meta.status # "running"
        THEN meta
        ELSE IF graph.status # "running"
             THEN graph
             ELSE IF flow.status # "running"
                  THEN flow
                  ELSE Finish(AddSubsToCallGraph(flow),
                              IF google THEN "true" ELSE "ok")

ReadBinExport(file, m0) ==
    LET m == ResetContainers(
                 Log([m0 EXCEPT !.status = "running", !.position = 0],
                     "ReadBinExport", 0, ToU32(0)))
    IN  IF ~file.exists \/ ~file.header_ok
        THEN Finish(m, "threw")
        ELSE LegacyBody(m, file, FALSE)

ReadBinExportGoogle(file, m0) ==
    LET m == ResetContainers(
                 Log([m0 EXCEPT !.status = "running"],
                     "ReadBinExportGoogle", m0.position, ToU32(0)))
    IN  IF ~file.header_ok
        THEN Finish(m, "false")
        ELSE LegacyBody(m, file, TRUE)

(***************************************************************************)
(* Read (lines 362-372) and ReadGoogle (lines 229-251).                    *)
(***************************************************************************)
LegacyAlways(new_format) == TRUE

\* if (!ReadBinExport2(...)) / if (!ReadBinExport2Google(...))
RetryLegacy(new_format) == new_format.status = "false"

Read(file, m) ==
    LET new_format == ReadBinExport2(file, m)
    IN  IF RetryLegacy(new_format)
        THEN ReadBinExport(file, new_format)
        ELSE Finish(new_format, "ok")

\* file->Seek(0, file::Defaults()).IgnoreError(), line 246.
Seek(m) == [Log(m, "Seek", 0, ToU32(0)) EXCEPT !.position = 0]

ReadGoogle(file, m) ==
    IF ~file.exists
    THEN Finish(m, "false")
    ELSE LET new_format == ReadBinExport2Google(file, m)
         IN  IF RetryLegacy(new_format)
             THEN ReadBinExportGoogle(file, Seek(new_format))
             ELSE Finish(new_format, "true")

\* The containers of a caller before its first read.
NewReader ==
    [call_graph |-> EmptyCallGraph, flow_graphs |-> {},
     flow_graph_infos |-> {}, instruction_cache |-> {}, log |-> <<>>,
     position |-> 0, status |-> "none", entry |-> "none",
     before_stubs |-> <<>>, heap |-> <<>>]

NoFile == CHOOSE f \in BrokenFiles : ~f.exists

\* A call begins: the record of the call before it is dropped, and with it
\* the objects that were deleted.
Begin(m, entry) ==
    [m EXCEPT !.log = <<>>, !.position = 0, !.status = "running",
              !.entry = entry, !.before_stubs = <<>>,
              !.heap = SelectSeq(@, LAMBDA object : object.member)]

(***************************************************************************)
(* ScopedCleanup (src/differ.cc:385-397): the owner of two flow-graph sets *)
(* and an instruction cache, each of which may be null.                    *)
(***************************************************************************)
\* The files read into the owned containers: the new-format files, the
\* broken files, and the legacy files whose header has no anomaly.
CleanupFiles ==
    BinExport2Files \cup BrokenFiles
        \cup {f \in LegacyFiles :
                 f.offsets = Offsets(ToU32(256), Records(f.program), 0,
                                     ToU32(256))}

\* ScopedCleanup(flow_graphs1, flow_graphs2, instruction_cache): 0 is a null
\* pointer, 1 and 2 are the caller's two sets.
NewScopedCleanup(flow_graphs1, flow_graphs2, instruction_cache) ==
    [flow_graphs1_ |-> flow_graphs1, flow_graphs2_ |-> flow_graphs2,
     instruction_cache_ |-> instruction_cache,
     sets |-> <<NewReader, NewReader>>, cache |-> {}, reads |-> 0,
     released |-> FALSE]

NoCleanup == NewScopedCleanup(0, 0, FALSE)

(***************************************************************************)
(* Counting, confidence and similarity (src/differ.cc:480-784).  A double  *)
(* is a fixed-point number, in units of 1 / Scale.                         *)
(***************************************************************************)
Scale == 1000

FromInt(n) == n * Scale

Times(a, b) == (a * b) \div Scale

Over(a, b) == (a * Scale) \div b

Max(a, b) == IF a >= b THEN a ELSE b

Min(a, b) == IF a <= b THEN a ELSE b

Fabs(a) == IF a < 0 THEN -a ELSE a

\* exp: e^k for the integers k of -5..5, times the Taylor series of e^f for
\* the fraction 0 <= f < 1.
ExpInteger(k) ==
    <<7, 18, 50, 135, 368, 1000, 2718, 7389, 20086, 54598, 148413>>[k + 6]

RECURSIVE ExpSeries(_, _, _)
ExpSeries(f, term, n) ==
    IF term = 0
    THEN 0
    ELSE term + ExpSeries(f, (term * f) \div (n * Scale), n + 1)

ExpOfNegated(y) ==
    Times(ExpInteger((-y) \div Scale), ExpSeries((-y) % Scale, Scale, 1))

Exp(y) == Times(ExpInteger(y \div Scale), ExpSeries(y % Scale, Scale, 1))

\* The sum of the values of a function with a finite domain.
RECURSIVE Total(_)
Total(f) ==
    IF DOMAIN f = {}
    THEN 0
    ELSE LET x == CHOOSE x \in DOMAIN f : TRUE
         IN  f[x] + Total([y \in DOMAIN f \ {x} |-> f[y]])

(***************************************************************************)
(* The programs that are scored.  A function is a flow graph with its      *)
(* library flag, the instruction count of every basic block, its edges     *)
(* (parallel edges repeat) and its MD index; a fixed point pairs two       *)
(* functions and holds its basic-block fixed points.                       *)
(***************************************************************************)
Function(library, instructions, edges, md_index) ==
    [library |-> library, instructions |-> instructions, edges |-> edges,
     md_index |-> md_index]

BasicBlockFixedPoint(primary_vertex, secondary_vertex, name, matches) ==
    [primary_vertex |-> primary_vertex, secondary_vertex |-> secondary_vertex,
     step |-> name, instruction_matches |-> matches]

FunctionFixedPoint(primary, secondary, name, basic_blocks) ==
    [primary |-> primary, secondary |-> secondary, step |-> name,
     basic_block_fixed_points |-> basic_blocks]

\* GetDefaultMatchingSteps() and GetDefaultMatchingStepsBasicBlock(): the
\* name and the confidence of every registered step.
StepConfidences ==
    ("function: hash matching" :> 1000) @@
    ("function: edges flowgraph MD index" :> 900) @@
    ("function: call sequence matching" :> 600) @@
    ("function: loop count matching" :> 200) @@
    ("basicBlock: hash matching" :> 1000) @@
    ("basicBlock: propagation (size==1)" :> 500)

(***************************************************************************)
(* Count of a FlowGraphs set (src/differ.cc:486-522).                      *)
(***************************************************************************)
CountFlowGraphs(flow_graphs) ==
    LET Of(library) ==
            {a \in DOMAIN flow_graphs : flow_graphs[a].library = library}
        BasicBlocks(library) ==
            Total([a \in Of(library) |-> Len(flow_graphs[a].instructions)])
        Instructions(library) ==
            Total([a \in Of(library) |-> Sum(flow_graphs[a].instructions)])
        Edges(library) ==
            Total([a \in Of(library) |-> Len(flow_graphs[a].edges)])
    IN  ("functions (library)" :> Cardinality(Of(TRUE))) @@
        ("functions (non-library)" :> Cardinality(Of(FALSE))) @@
        ("basicBlocks (library)" :> BasicBlocks(TRUE)) @@
        ("basicBlocks (non-library)" :> BasicBlocks(FALSE)) @@
        ("instructions (library)" :> Instructions(TRUE)) @@
        ("instructions (non-library)" :> Instructions(FALSE)) @@
        ("edges (library)" :> Edges(TRUE)) @@
        ("edges (non-library)" :> Edges(FALSE))

(***************************************************************************)
(* Count of a FixedPoint (src/differ.cc:524-584).                          *)
(***************************************************************************)
MatchKeys ==
    {"function matches (library)", "basicBlock matches (library)",
     "instruction matches (library)", "flowGraph edge matches (library)",
     "function matches (non-library)", "basicBlock matches (non-library)",
     "instruction matches (non-library)",
     "flowGraph edge matches (non-library)"}

\* (*histogram)[name] = 1
IncrementToOne(histogram, name) ==
    IF name \in DOMAIN histogram
    THEN [histogram EXCEPT ![name] = 1]
    ELSE histogram @@ (name :> 1)

\* (*histogram)[name]++
Increment(histogram, name) ==
    IF name \in DOMAIN histogram
    THEN [histogram EXCEPT ![name] = @ + 1]
    ELSE histogram @@ (name :> 1)

RECURSIVE IncrementAll(_, _)
IncrementAll(histogram, basic_blocks) ==
    IF basic_blocks = {}
    THEN histogram
    ELSE LET b == CHOOSE b \in basic_blocks : TRUE
         IN  IncrementAll(Increment(histogram, b.step), basic_blocks \ {b})

\* Lines 573-581: the loop over the out-edges of source2, from the k-th edge
\* of secondary on; the first edge to target2 counts and ends the loop.
RECURSIVE OutEdgeMatchesNoBreak(_, _, _, _)
OutEdgeMatchesNoBreak(edges, k, source2, target2) ==
    IF k > Len(edges)
    THEN 0
    ELSE IF edges[k] = <<source2, target2>>
    THEN 1 + OutEdgeMatchesNoBreak(edges, k + 1, source2, target2)
    ELSE OutEdgeMatchesNoBreak(edges, k + 1, source2, target2)

RECURSIVE OutEdgeMatches(_, _, _, _)
OutEdgeMatches(edges, k, source2, target2) ==
    IF k > Len(edges)
    THEN 0
    ELSE IF edges[k] = <<source2, target2>>
    THEN 1
    ELSE OutEdgeMatches(edges, k + 1, source2, target2)

\* Lines 560-583: the loop over the edges of primary, from the j-th on.
RECURSIVE EdgeMatchesFrom(_, _, _, _)
EdgeMatchesFrom(primary, secondary, basic_blocks, j) ==
    LET At(v) == {b \in basic_blocks : b.primary_vertex = v}
        Image(v) == (CHOOSE b \in At(v) : TRUE).secondary_vertex
        source1 == primary.edges[j][1]
        target1 == primary.edges[j][2]
    IN  IF j > Len(primary.edges)
        THEN 0
        ELSE (IF At(source1) # {} /\ At(target1) # {}
              THEN OutEdgeMatches(secondary.edges, 1, Image(source1),
                                  Image(target1))
              ELSE 0)
             + EdgeMatchesFrom(primary, secondary, basic_blocks, j + 1)

EdgeMatches(primary, secondary, basic_blocks) ==
    EdgeMatchesFrom(primary, secondary, basic_blocks, 1)

\* Count of a fixed point that takes the library flag of primary alone.
CountFixedPointPrimaryFlag(fixed_point, flow_graphs1, flow_graphs2, histogram) ==
    LET primary == flow_graphs1[fixed_point.primary]
        secondary == flow_graphs2[fixed_point.secondary]
        library == primary.library
        basic_blocks == fixed_point.basic_block_fixed_points
        functions == IF library THEN "function matches (library)"
                     ELSE "function matches (non-library)"
        blocks == IF library THEN "basicBlock matches (library)"
                  ELSE "basicBlock matches (non-library)"
        instructions == IF library THEN "instruction matches (library)"
                        ELSE "instruction matches (non-library)"
        edges == IF library THEN "flowGraph edge matches (library)"
                 ELSE "flowGraph edge matches (non-library)"
    IN  [histogram |->
             IncrementAll(Increment(histogram, fixed_point.step),
                          basic_blocks),
         counts |->
             [k \in MatchKeys |->
                 IF k = functions THEN 1
                 ELSE IF k = blocks THEN Cardinality(basic_blocks)
                 ELSE IF k = instructions
                      THEN Total([b \in basic_blocks |->
                                     b.instruction_matches])
                 ELSE IF k = edges
                      THEN EdgeMatches(primary, secondary, basic_blocks)
                 ELSE 0]]

CountFixedPoint(fixed_point, flow_graphs1, flow_graphs2, histogram) ==
    LET primary == flow_graphs1[fixed_point.primary]
        secondary == flow_graphs2[fixed_point.secondary]
        library == primary.library \/ secondary.library
        basic_blocks == fixed_point.basic_block_fixed_points
        functions == IF library THEN "function matches (library)"
                     ELSE "function matches (non-library)"
        blocks == IF library THEN "basicBlock matches (library)"
                  ELSE "basicBlock matches (non-library)"
        instructions == IF library THEN "instruction matches (library)"
                        ELSE "instruction matches (non-library)"
        edges == IF library THEN "flowGraph edge matches (library)"
                 ELSE "flowGraph edge matches (non-library)"
    IN  [histogram |->
             IncrementAll(Increment(histogram, fixed_point.step),
                          basic_blocks),
         counts |->
             [k \in MatchKeys |->
                 IF k = functions THEN 1
                 ELSE IF k = blocks THEN Cardinality(basic_blocks)
                 ELSE IF k = instructions
                      THEN Total([b \in basic_blocks |->
                                     b.instruction_matches])
                 ELSE IF k = edges
                      THEN EdgeMatches(primary, secondary, basic_blocks)
                 ELSE 0]]

(***************************************************************************)
(* GetConfidence (src/differ.cc:587-612).                                  *)
(***************************************************************************)
\* The two entries of lines 600-601 set before the registry is copied.
ConfidencesRegistryLast ==
    StepConfidences @@
    ("basicBlock: propagation (size==1)" :> 0) @@
    ("function: call reference matching" :> 750)

\* Lines 588-601: the registry, then the two entries set after it.
Confidences ==
    ("basicBlock: propagation (size==1)" :> 0) @@
    ("function: call reference matching" :> 750) @@
    StepConfidences

\* (*confidences)[name]: a name that is not in the map gets the entry 0.0.
ConfidenceOf(name) ==
    IF name \in DOMAIN Confidences THEN Confidences[name] ELSE 0

GetConfidenceNoGuard(histogram) ==
    LET confidence ==
            Total([n \in DOMAIN histogram |->
                      histogram[n] * ConfidenceOf(n)])
        match_count == Total(histogram)
    IN  Over(Scale,
             Scale + Exp((-(confidence \div Max(match_count, 1) - 500))
                         * 10))

GetConfidence(histogram) ==
    LET confidence ==
            Total([n \in DOMAIN histogram |->
                      histogram[n] * ConfidenceOf(n)])
        match_count == Total(histogram)
    IN  IF match_count # 0
        THEN Over(Scale,
                  Scale + Exp((-(confidence \div match_count - 500)) * 10))
        ELSE 0

(***************************************************************************)
(* GetCountsAndHistogram (src/differ.cc:614-681).                          *)
(***************************************************************************)
RECURSIVE CountFixedPoints(_, _, _, _, _)
CountFixedPoints(fixed_points, flow_graphs1, flow_graphs2, histogram, matches) ==
    IF fixed_points = {}
    THEN [histogram |-> histogram, counts |-> matches]
    ELSE LET i == CHOOSE i \in fixed_points : TRUE
             fixed_point_counts ==
                 CountFixedPoint(i, flow_graphs1, flow_graphs2, histogram)
         IN  CountFixedPoints(
                 fixed_points \ {i}, flow_graphs1, flow_graphs2,
                 fixed_point_counts.histogram,
                 [k \in MatchKeys |->
                     matches[k] + fixed_point_counts.counts[k]])

GetCountsAndHistogram(flow_graphs1, flow_graphs2, fixed_points, histogram, counts) ==
    LET counts1 == CountFlowGraphs(flow_graphs1)
        counts2 == CountFlowGraphs(flow_graphs2)
        sides ==
            ("functions primary (library)" :>
                 counts1["functions (library)"]) @@
            ("functions primary (non-library)" :>
                 counts1["functions (non-library)"]) @@
            ("functions secondary (library)" :>
                 counts2["functions (library)"]) @@
            ("functions secondary (non-library)" :>
                 counts2["functions (non-library)"]) @@
            ("basicBlocks primary (library)" :>
                 counts1["basicBlocks (library)"]) @@
            ("basicBlocks primary (non-library)" :>
                 counts1["basicBlocks (non-library)"]) @@
            ("basicBlocks secondary (library)" :>
                 counts2["basicBlocks (library)"]) @@
            ("basicBlocks secondary (non-library)" :>
                 counts2["basicBlocks (non-library)"]) @@
            ("instructions primary (library)" :>
                 counts1["instructions (library)"]) @@
            ("instructions primary (non-library)" :>
                 counts1["instructions (non-library)"]) @@
            ("instructions secondary (library)" :>
                 counts2["instructions (library)"]) @@
            ("instructions secondary (non-library)" :>
                 counts2["instructions (non-library)"]) @@
            ("flowGraph edges primary (library)" :>
                 counts1["edges (library)"]) @@
            ("flowGraph edges primary (non-library)" :>
                 counts1["edges (non-library)"]) @@
            ("flowGraph edges secondary (library)" :>
                 counts2["edges (library)"]) @@
            ("flowGraph edges secondary (non-library)" :>
                 counts2["edges (non-library)"])
        matched ==
            CountFixedPoints(fixed_points, flow_graphs1, flow_graphs2,
                             histogram, [k \in MatchKeys |-> 0])
    IN  [histogram |-> matched.histogram,
         counts |-> matched.counts @@ sides @@ counts]

(***************************************************************************)
(* GetSimilarityScore for a pair of flow graphs (src/differ.cc:684-742)    *)
(* and for the two call graphs (src/differ.cc:746-784).                    *)
(***************************************************************************)
\* weight * matches / std::max(1.0, 0.5 * (primary + secondary))
Share(weight, matches, primary, secondary) ==
    Over(Times(weight, FromInt(matches)),
         Max(Scale, Times(500, FromInt(primary + secondary))))

\* 1.0 - fabs(md1 - md2) / (1.0 + md1 + md2)
MdIndexShare(md_index1, md_index2) ==
    Scale - Over(Fabs(md_index1 - md_index2), Scale + md_index1 + md_index2)

GetSimilarityScoreFlowGraphNoShortcut(flow_graph1, flow_graph2, histogram, counts) ==
    LET Both(key_non_library, key_library) ==
            counts[key_non_library] + counts[key_library]
        similarity ==
            Min(Share(550,
                      Both("flowGraph edge matches (non-library)",
                           "flowGraph edge matches (library)"),
                      Both("flowGraph edges primary (non-library)",
                           "flowGraph edges primary (library)"),
                      Both("flowGraph edges secondary (non-library)",
                           "flowGraph edges secondary (library)"))
                + Share(300,
                        Both("basicBlock matches (non-library)",
                             "basicBlock matches (library)"),
                        Both("basicBlocks primary (non-library)",
                             "basicBlocks primary (library)"),
                        Both("basicBlocks secondary (non-library)",
                             "basicBlocks secondary (library)"))
                + Share(150,
                        Both("instruction matches (non-library)",
                             "instruction matches (library)"),
                        Both("instructions primary (non-library)",
                             "instructions primary (library)"),
                        Both("instructions secondary (non-library)",
                             "instructions secondary (library)")),
                Scale)
    IN  Times((similarity
               + MdIndexShare(flow_graph1.md_index, flow_graph2.md_index))
              \div 2,
              GetConfidence(histogram))

GetSimilarityScoreFlowGraphBlocksOnly(flow_graph1, flow_graph2, histogram, counts) ==
    LET Both(key_non_library, key_library) ==
            counts[key_non_library] + counts[key_library]
        basic_block_matches ==
            Both("basicBlock matches (non-library)",
                 "basicBlock matches (library)")
    IN  IF /\ basic_block_matches
                  = Both("basicBlocks primary (non-library)",
                         "basicBlocks primary (library)")
           /\ basic_block_matches
                  = Both("basicBlocks secondary (non-library)",
                         "basicBlocks secondary (library)")
        THEN FromInt(1)
        ELSE GetSimilarityScoreFlowGraphNoShortcut(flow_graph1, flow_graph2,
                                                   histogram, counts)

GetSimilarityScoreFlowGraph(flow_graph1, flow_graph2, histogram, counts) ==
    LET Both(key_non_library, key_library) ==
            counts[key_non_library] + counts[key_library]
        basic_block_matches ==
            Both("basicBlock matches (non-library)",
                 "basicBlock matches (library)")
        basic_blocks_primary ==
            Both("basicBlocks primary (non-library)",
                 "basicBlocks primary (library)")
        basic_blocks_secondary ==
            Both("basicBlocks secondary (non-library)",
                 "basicBlocks secondary (library)")
        instruction_matches ==
            Both("instruction matches (non-library)",
                 "instruction matches (library)")
        instructions_primary ==
            Both("instructions primary (non-library)",
                 "instructions primary (library)")
        instructions_secondary ==
            Both("instructions secondary (non-library)",
                 "instructions secondary (library)")
        edge_matches ==
            Both("flowGraph edge matches (non-library)",
                 "flowGraph edge matches (library)")
        edges_primary ==
            Both("flowGraph edges primary (non-library)",
                 "flowGraph edges primary (library)")
        edges_secondary ==
            Both("flowGraph edges secondary (non-library)",
                 "flowGraph edges secondary (library)")
        similarity ==
            Min(Share(550, edge_matches, edges_primary, edges_secondary)
                + Share(300, basic_block_matches, basic_blocks_primary,
                        basic_blocks_secondary)
                + Share(150, instruction_matches, instructions_primary,
                        instructions_secondary),
                Scale)
    IN  IF /\ basic_block_matches = basic_blocks_primary
           /\ basic_block_matches = basic_blocks_secondary
           /\ instruction_matches = instructions_primary
           /\ instruction_matches = instructions_secondary
        THEN FromInt(1)
        ELSE Times((similarity
                    + MdIndexShare(flow_graph1.md_index,
                                   flow_graph2.md_index))
                   \div 2,
                   GetConfidence(histogram))

GetSimilarityScoreCallGraph(call_graph1, call_graph2, histogram, counts) ==
    LET similarity ==
            Share(350, counts["flowGraph edge matches (non-library)"],
                  counts["flowGraph edges primary (non-library)"],
                  counts["flowGraph edges secondary (non-library)"])
            + Share(250, counts["basicBlock matches (non-library)"],
                    counts["basicBlocks primary (non-library)"],
                    counts["basicBlocks secondary (non-library)"])
            + Share(100, counts["function matches (non-library)"],
                    counts["functions primary (non-library)"],
                    counts["functions secondary (non-library)"])
            + Share(100, counts["instruction matches (non-library)"],
                    counts["instructions primary (non-library)"],
                    counts["instructions secondary (non-library)"])
            + Times(200, MdIndexShare(call_graph1.md_index,
                                      call_graph2.md_index))
    IN  Times(Min(similarity, Scale), GetConfidence(histogram))

(***************************************************************************)
(* The programs and the fixed-point sets that are scored.                  *)
(***************************************************************************)
TwoBlocks == Function(FALSE, <<2, 1>>, <<<<1, 2>>>>, 1500)

Loop == Function(FALSE, <<3>>, <<<<1, 1>>>>, 2750)

LibraryBranch == Function(TRUE, <<1, 1>>, <<<<1, 2>>, <<1, 2>>>>, 800)

Stub == Function(TRUE, <<>>, <<>>, 0)

Program(md_index, flow_graphs) ==
    [md_index |-> md_index, flow_graphs |-> flow_graphs]

ScorePrograms ==
    {Program(0, <<>>),
     Program(4200, <<TwoBlocks, LibraryBranch>>),
     Program(1300, <<Loop, Stub>>),
     Program(6100, <<TwoBlocks, Loop>>)}

\* The basic-block fixed points a step may have found for a pair of flow
\* graphs: none, the first basic blocks only, or every common basic block
\* with every common instruction.
BasicBlockMatchings(primary, secondary) ==
    LET common == Min(Len(primary.instructions), Len(secondary.instructions))
        Pair(v, name) ==
            BasicBlockFixedPoint(
                v, v, name,
                Min(primary.instructions[v], secondary.instructions[v]))
    IN  {{},
         {Pair(v, "basicBlock: propagation (size==1)") :
              v \in 1..Min(common, 1)},
         {Pair(v, "basicBlock: hash matching") : v \in 1..common}}

FunctionStepNames ==
    {"function: hash matching", "function: loop count matching",
     kFunctionCallReferenceName, "function: manual"}

\* Every fixed point a step may have stored for two programs, and the sets
\* of them in which no function is matched twice.
FixedPointsOf(program_p, program_s) ==
    UNION {{FunctionFixedPoint(pair[1], pair[2], name, basic_blocks) :
               name \in FunctionStepNames,
               basic_blocks \in
                   BasicBlockMatchings(program_p.flow_graphs[pair[1]],
                                       program_s.flow_graphs[pair[2]])} :
           pair \in (DOMAIN program_p.flow_graphs)
                        \X (DOMAIN program_s.flow_graphs)}

FixedPointSets(program_p, program_s) ==
    {F \in {{f, g} : f, g \in FixedPointsOf(program_p, program_s)} :
        \A f, g \in F :
            (f.primary = g.primary \/ f.secondary = g.secondary) => f = g}
    \cup {{}}

\* Only(flow_graphs, a): the FlowGraphs set that holds one flow graph.
Only(flow_graphs, a) == [x \in {a} |-> flow_graphs[x]]

NoValue == -1

NoSimilarity ==
    [fixed_point |-> FunctionFixedPoint(0, 0, "none", {}),
     similarity |-> NoValue]

IdleProgram == Program(0, <<>>)

(***************************************************************************)
(* The configuration utility (src/tools/config_setup.cc).  A string is a   *)
(* sequence of tokens, "=" being the character '='; a Config holds one     *)
(* string per setting; a file is missing, unparsable, or the JSON of a     *)
(* Config.                                                                 *)
(***************************************************************************)
\* Lines 222-230: the names of the settings the utility can modify.
string_settings ==
    {"directory", "ida.directory", "log.directory",
     "preferences.default_workspace", "ui.java_binary", "ui.server"}

\* config::Defaults(): no setting has a value.
Defaults == [name \in string_settings |-> <<>>]

\* config::Proto(): the configuration as BinDiff itself loads it, which
\* names the directory BinDiff is installed in.
Proto == [Defaults EXCEPT !["directory"] = <<"/opt/bindiff">>]

\* config::MergeInto(from, config): the settings that from has a value for
\* replace those of config.
MergeInto(from, config) ==
    [name \in string_settings |->
        IF from[name] # <<>> THEN from[name] ELSE config[name]]

Missing == [kind |-> "missing"]

Garbage == [kind |-> "garbage"]

\* config::AsJsonString(config)
AsJsonString(config) == [kind |-> "json", config |-> config]

\* config::LoadFromFile(filename)
LoadFromFile(filename, files) ==
    IF files[filename].kind = "json"
    THEN [status |-> "Ok", config |-> files[filename].config]
    ELSE IF files[filename].kind = "missing"
         THEN [status |-> "NotFound", config |-> Defaults]
         ELSE [status |-> "InvalidArgument", config |-> Defaults]

FileNames == {"bindiff.json", "other.json"}

\* absl::StrSplit(arg, absl::MaxSplits('=', 1)) converted to a pair: what is
\* before the first '=' and what is after it; the whole of arg and the empty
\* string when arg has no '='.
StrSplit(arg) ==
    LET at == {i \in DOMAIN arg : arg[i] = "="}
        first == CHOOSE i \in at : \A j \in at : i <= j
    IN  IF at = {}
        THEN <<arg, <<>>>>
        ELSE <<SubSeq(arg, 1, first - 1), SubSeq(arg, first + 1, Len(arg))>>

\* ApplySettings that skips a name it does not find.
RECURSIVE ApplySettingsSkipUnknown(_, _)
ApplySettingsSkipUnknown(args, settings) ==
    IF args = <<>>
    THEN [status |-> "Ok", settings |-> settings]
    ELSE LET kv == StrSplit(Head(args))
         IN  ApplySettingsSkipUnknown(
                 Tail(args),
                 IF Len(kv[1]) = 1 /\ kv[1][1] \in string_settings
                 THEN [settings EXCEPT ![kv[1][1]] = kv[2]]
                 ELSE settings)

\* ApplySettings (lines 167-180): the arguments in order; the first name
\* that is not a setting ends the loop with an error.
RECURSIVE ApplySettings(_, _)
ApplySettings(args, settings) ==
    IF args = <<>>
    THEN [status |-> "Ok", settings |-> settings]
    ELSE LET kv == StrSplit(Head(args))
         IN  IF Len(kv[1]) = 1 /\ kv[1][1] \in string_settings
             THEN ApplySettings(Tail(args),
                                [settings EXCEPT ![kv[1][1]] = kv[2]])
             ELSE [status |-> "InvalidArgument", settings |-> settings]

\* PrintSettingsNames (lines 154-165): the names, sorted.
PrintSettingsNames ==
    <<"directory", "ida.directory", "log.directory",
      "preferences.default_workspace", "ui.java_binary", "ui.server">>

\* The plugins that PerUserSetup links, each named as its link is.
Plugins == {"binexport_binaryninja", "bindiff_ida", "binexport_ida"}

\* What can fail in PerUserSetup besides a plugin that is not installed:
\* GetOrCreateAppDataDirectory (lines 114-115 and, within
\* GetOrCreateIdaProUserPluginsDirectory, line 66), CreateDirectories
\* (lines 118, 70 and 135), and the making of a link.
PerUserFailures ==
    {"binaryninja", "binaryninja/plugins", "idapro", "idapro/plugins"}
        \cup Plugins

\* PerUserSetup (lines 78-149).  installed are the plugins found in the
\* BinDiff directory, failing is the directory or the link that the file
\* system refuses, if any.  CreateOrUpdateLinkWithFallback is not found for
\* a plugin that is not installed; for the Binary Ninja plugin that is
\* skipped (lines 122-130), every other error ends the setup with the
\* links made so far.
PerUserSetup(config, links, installed, failing) ==
    LET Directory(name) == IF failing = name THEN "Unknown" ELSE "Ok"
        Link(plugin) ==
            IF plugin \notin installed THEN "NotFound"
            ELSE IF failing = plugin THEN "Unknown"
            ELSE "Ok"
        Return(status, made) == [status |-> status, links |-> links \cup made]
        binaryninja ==
            IF Link("binexport_binaryninja") = "Ok"
            THEN {"binexport_binaryninja"}
            ELSE {}
    IN  IF config["directory"] = <<>>
        THEN Return("FailedPrecondition", {})
        ELSE IF Directory("binaryninja") # "Ok"
        THEN Return(Directory("binaryninja"), {})
        ELSE IF Directory("binaryninja/plugins") # "Ok"
        THEN Return(Directory("binaryninja/plugins"), {})
        ELSE IF Link("binexport_binaryninja") \notin {"Ok", "NotFound"}
        THEN Return(Link("binexport_binaryninja"), {})
        ELSE IF Directory("idapro") # "Ok"
        THEN Return(Directory("idapro"), binaryninja)
        ELSE IF Directory("idapro/plugins") # "Ok"
        THEN Return(Directory("idapro/plugins"), binaryninja)
        ELSE IF Link("bindiff_ida") # "Ok"
        THEN Return(Link("bindiff_ida"), binaryninja)
        ELSE IF Link("binexport_ida") # "Ok"
        THEN Return(Link("binexport_ida"),
                    binaryninja \cup {"bindiff_ida"})
        ELSE Return("Ok", binaryninja \cup {"bindiff_ida", "binexport_ida"})

Flags(config, print_only, help_settings, per_user) ==
    [config |-> config, print_only |-> print_only,
     help_settings |-> help_settings, per_user |-> per_user]

\* The least argc of a command line in which absl::ParseCommandLine (line
\* 208) finds these flags and positional arguments: the program name, the
\* positional arguments, and one argument if any flag is off its default
\* (one --flagfile or --fromenv sets several flags).  An argument that sets
\* a flag to its default, sets a flag again, or is "--" adds to argc and
\* to nothing else.
MinArgc(flags, positional) ==
    1 + Len(positional)
      + (IF \/ flags.config # ""
            \/ flags.print_only
            \/ flags.help_settings
            \/ flags.per_user
         THEN 1
         ELSE 0)

\* ConfigSetupMain (lines 200-271): argc is the length of argv as the
\* process got it, flags and positional are what absl::ParseCommandLine
\* found in it, files and links are those that exist; io is whether the
\* serialization of line 251 and the write of lines 262-266 succeed;
\* installed and failing are what PerUserSetup meets.
ConfigSetupMain(argc, flags, positional, files, links, io, installed, failing) ==
    LET Done(status, new_files, new_links, stdout, written) ==
            [flags |-> flags, positional |-> positional, status |-> status,
             files |-> new_files, links |-> new_links, stdout |-> stdout,
             io |-> written]
        config == IF ~flags.print_only THEN Defaults ELSE Proto
        loaded_config == LoadFromFile(flags.config, files)
        merged == IF flags.config = ""
                  THEN config
                  ELSE MergeInto(loaded_config.config, config)
        applied == ApplySettings(positional, merged)
        serialized == AsJsonString(applied.settings)
        per_user == PerUserSetup(Proto, links, installed, failing)
    IN  IF flags.per_user
        THEN IF argc # 2
             THEN Done("InvalidArgument", files, links, <<>>, "none")
             ELSE Done(per_user.status, files, per_user.links, <<>>, "none")
        ELSE IF flags.help_settings
        THEN Done("Ok", files, links,
                  <<"Available settings:">> \o PrintSettingsNames, "none")
        ELSE IF flags.config = "" /\ ~flags.print_only
        THEN Done("InvalidArgument", files, links, <<>>, "none")
        ELSE IF flags.config # "" /\ loaded_config.status # "Ok"
        THEN Done(loaded_config.status, files, links, <<>>, "none")
        ELSE IF applied.status # "Ok"
        THEN Done(applied.status, files, links, <<>>, "none")
        ELSE IF io = "serialization fails"
        THEN Done("Internal", files, links, <<>>, io)
        ELSE IF flags.print_only
        THEN Done("Ok", files, links, <<serialized>>, "none")
        ELSE IF io = "open fails"
        THEN Done("Unknown", files, links, <<>>, io)
        ELSE IF io = "write fails"
        THEN Done("Unknown", [files EXCEPT ![flags.config] = Garbage], links,
                  <<>>, io)
        ELSE Done("Ok", [files EXCEPT ![flags.config] = serialized], links,
                  <<>>, io)

\* The arguments of a run: settings of two names, with and without a value
\* and with a '=' in the value, and a name that is no setting.
Args ==
    {<<"directory", "=", "/opt/bindiff">>,
     <<"ui.server", "=", "localhost", "=", "2000">>,
     <<"ui.server">>,
     <<"log", "=", "/tmp">>}

NoConfigSetup ==
    [flags |-> Flags("", FALSE, FALSE, FALSE), positional |-> <<>>,
     status |-> "none", files |-> [name \in FileNames |-> Missing],
     links |-> {}, stdout |-> <<>>, io |-> "none"]

(***************************************************************************)
(* Diff: the initial state and the steps.                                  *)
(***************************************************************************)
DiffInit ==
    /\ primary_call_graph_ \in CallGraphs
    /\ secondary_call_graph_ \in CallGraphs
    /\ context = EmptyContext(primary_call_graph_, secondary_call_graph_)
    /\ matching_steps_for_current_level = default_call_graph_steps
    /\ pc = "level"
    /\ cursor = 0
    /\ more_fixed_points_discovered = FALSE
    /\ callref_todo = {}
    /\ last_call = NoCall
    /\ passes = 0
    /\ classified = 0
    /\ levels = <<>>
    /\ reader = NewReader
    /\ read_file = NoFile
    /\ program1 = IdleProgram
    /\ program2 = IdleProgram
    /\ scored_fixed_points = {}
    /\ caller_histogram = <<>>
    /\ caller_counts = <<>>
    /\ count_calls = 0
    /\ program_similarity = NoValue
    /\ flow_graph_similarity = NoSimilarity
    /\ scoped_cleanup = NoCleanup
    /\ config_setup = NoConfigSetup

\* What a rigor level that begins finds in the context: the flow graphs
\* without a fixed point and the fixed points stored so far; refined counts
\* the FindCallReferenceFixedPoints calls of the level per fixed point.  Of
\* the pass of the do-while loop that is running: the fixed points stored
\* when it began, and those its two for-loops have visited.
Level(ctx) ==
    [primary_unmatched |->
         {v \in DOMAIN ctx.primary_flow_graphs_ :
             ctx.primary_flow_graphs_[v] = NoFixedPoint},
     secondary_unmatched |->
         {v \in DOMAIN ctx.secondary_flow_graphs_ :
             ctx.secondary_flow_graphs_[v] = NoFixedPoint},
     fixed_points |-> ctx.fixed_points_,
     refined |-> <<>>,
     pass_began_with |-> {},
     visited |-> [children |-> {}, parents |-> {}]]

\* do { more_fixed_points_discovered = false; (lines 424-425)
BeginPass(level, ctx) ==
    [level EXCEPT !.pass_began_with = ctx.fixed_points_,
                  !.visited = [children |-> {}, parents |-> {}]]

\* context->new_fixed_points_.clear() at the head of a rigor level (line 415).
ClearAll(ctx) ==
    [ctx EXCEPT !.new_fixed_points_ = {}, !.fixed_points_ = {}]

ClearNothing(ctx) == ctx

ClearNewFixedPoints(ctx) == [ctx EXCEPT !.new_fixed_points_ = {}]

\* Lines 411-426: the head of one rigor level, with the seed invocation of
\* the active step on the flow-graph sets of both programs.
DiffLevel ==
    /\ pc = "level"
    /\ matching_steps_for_current_level # <<>>
    /\ LET cleared == ClearNewFixedPoints(context)
           matching_steps == matching_steps_for_current_level
           primary == Vertices(primary_call_graph_)
           secondary == Vertices(secondary_call_graph_)
       IN  \E attempts \in Attempts(primary, secondary),
              name \in Range(matching_steps) :
               /\ context' = InsertAll(cleared, attempts, name)
               /\ last_call' = Call(cleared, "seed", NoFixedPoint, primary,
                                    secondary, matching_steps)
               /\ levels' = Append(levels,
                                   BeginPass(Level(cleared), context'))
    /\ more_fixed_points_discovered' = FALSE
    /\ cursor' = 0
    /\ passes' = 1
    /\ pc' = "children"
    /\ UNCHANGED <<primary_call_graph_, secondary_call_graph_,
                   matching_steps_for_current_level, callref_todo, classified>>
    /\ UNCHANGED other_than_diff

\* One iteration of a propagation for-loop (lines 434-449 and 452-467) for
\* the fixed point the iterator reaches.
Propagate(kind, fixed_point, primary, secondary) ==
    /\ cursor' = fixed_point.primary
    /\ levels' = [levels EXCEPT ![Len(levels)].visited[kind] =
                     @ \cup {fixed_point}]
    /\ IF primary # {} /\ secondary # {}
       THEN \E attempts \in Attempts(primary, secondary),
               name \in Range(matching_steps_for_current_level) :
                /\ context' = InsertAll(context, attempts, name)
                /\ more_fixed_points_discovered' =
                       (more_fixed_points_discovered \/
                        Discovered(context, context'))
                /\ last_call' = Call(context, kind, fixed_point, primary,
                                     secondary,
                                     matching_steps_for_current_level)
       ELSE UNCHANGED <<context, more_fixed_points_discovered, last_call>>

PropagateChildren ==
    /\ pc = "children"
    /\ Ahead(context, cursor) # {}
    /\ LET fixed_point == NextFixedPoint(context, cursor)
       IN  Propagate("children", fixed_point,
                     GetUnmatchedChildren(primary_call_graph_,
                                          fixed_point.primary,
                                          context.primary_flow_graphs_),
                     GetUnmatchedChildren(secondary_call_graph_,
                                          fixed_point.secondary,
                                          context.secondary_flow_graphs_))
    /\ UNCHANGED <<primary_call_graph_, secondary_call_graph_,
                   matching_steps_for_current_level, pc, callref_todo, passes,
                   classified>>
    /\ UNCHANGED other_than_diff

ChildrenDone ==
    /\ pc = "children"
    /\ Ahead(context, cursor) = {}
    /\ pc' = "parents"
    /\ cursor' = 0
    /\ UNCHANGED <<primary_call_graph_, secondary_call_graph_, context,
                   matching_steps_for_current_level,
                   more_fixed_points_discovered, callref_todo, last_call,
                   passes, classified>>
    /\ UNCHANGED levels
    /\ UNCHANGED other_than_diff

PropagateParents ==
    /\ pc = "parents"
    /\ Ahead(context, cursor) # {}
    /\ LET fixed_point == NextFixedPoint(context, cursor)
       IN  Propagate("parents", fixed_point,
                     GetUnmatchedParents(primary_call_graph_,
                                         fixed_point.primary,
                                         context.primary_flow_graphs_),
                     GetUnmatchedParents(secondary_call_graph_,
                                         fixed_point.secondary,
                                         context.secondary_flow_graphs_))
    /\ UNCHANGED <<primary_call_graph_, secondary_call_graph_,
                   matching_steps_for_current_level, pc, callref_todo, passes,
                   classified>>
    /\ UNCHANGED other_than_diff

\* Line 468: the do-while test after the parents loop.
RepeatAlways(more) == TRUE

RepeatNever(more) == FALSE

RepeatLoop(more) == more

ParentsDone ==
    /\ pc = "parents"
    /\ Ahead(context, cursor) = {}
    /\ cursor' = 0
    /\ more_fixed_points_discovered' = FALSE
    /\ IF RepeatLoop(more_fixed_points_discovered)
       THEN /\ pc' = "children"
            /\ passes' = passes + 1
            /\ levels' = [levels EXCEPT ![Len(levels)] =
                             BeginPass(@, context)]
            /\ UNCHANGED callref_todo
       ELSE /\ pc' = "callref"
            /\ callref_todo' = context.new_fixed_points_
            /\ UNCHANGED <<passes, levels>>
    /\ UNCHANGED <<primary_call_graph_, secondary_call_graph_, context,
                   matching_steps_for_current_level, last_call, classified>>
    /\ UNCHANGED other_than_diff

\* FindCallReferenceFixedPoints is not in src/.  Diff hands it the fixed
\* point and the context itself, not a copy: by the design document it
\* matches inside the bodies of the two functions along their call sites,
\* and what it finds for the functions called there (the step name
\* "function: call reference matching" of line 601) it stores through the
\* insert of the context, as every step does.  It may store nothing.
CallTargets(call_graph, vertex) ==
    {e.target : e \in {x \in call_graph.edges : x.source = vertex}}

\* Lines 472-475: one iteration of the loop over context->new_fixed_points_,
\* the set itself.  It is ordered by pointer value, so the visiting order
\* is arbitrary, and a fixed point inserted during the loop lands ahead of
\* the iterator or behind it.
CallReference ==
    /\ pc = "callref"
    /\ \E fixed_point \in callref_todo :
        \E attempts \in Attempts(CallTargets(primary_call_graph_,
                                             fixed_point.primary),
                                 CallTargets(secondary_call_graph_,
                                             fixed_point.secondary)) :
           /\ context' = InsertAll(context, attempts,
                                   kFunctionCallReferenceName)
           /\ \E ahead \in SUBSET (context'.new_fixed_points_ \
                                    context.new_fixed_points_) :
                  callref_todo' = (callref_todo \ {fixed_point}) \cup ahead
           /\ levels' = [levels EXCEPT ![Len(levels)].refined =
                            IF fixed_point \in DOMAIN @
                            THEN [@ EXCEPT ![fixed_point] = @ + 1]
                            ELSE @ @@ (fixed_point :> 1)]
    /\ UNCHANGED <<primary_call_graph_, secondary_call_graph_,
                   matching_steps_for_current_level, pc, cursor,
                   more_fixed_points_discovered, last_call, passes,
                   classified>>
    /\ UNCHANGED other_than_diff

\* Line 414: matching_steps_for_current_level.pop_front() after the level.
CallReferenceDone ==
    /\ pc = "callref"
    /\ callref_todo = {}
    /\ matching_steps_for_current_level' =
           Tail(matching_steps_for_current_level)
    /\ pc' = "level"
    /\ UNCHANGED <<primary_call_graph_, secondary_call_graph_, context,
                   cursor, more_fixed_points_discovered, callref_todo,
                   last_call, passes, classified>>
    /\ UNCHANGED levels
    /\ UNCHANGED other_than_diff

\* Line 477: ClassifyChanges(context) once the step list is empty.
DiffClassify ==
    /\ pc = "level"
    /\ matching_steps_for_current_level = <<>>
    /\ classified' = classified + 1
    /\ pc' = "done"
    /\ UNCHANGED <<primary_call_graph_, secondary_call_graph_, context,
                   matching_steps_for_current_level, cursor,
                   more_fixed_points_discovered, callref_todo, last_call,
                   passes>>
    /\ UNCHANGED levels
    /\ UNCHANGED other_than_diff

\* ResetMatches (lines 399-403): FlowGraph::ResetMatches() on every flow
\* graph of one set, which leaves each without its fixed point.  The
\* context's own sets of fixed points are not touched.
ResetMatches(flow_graphs) == [v \in DOMAIN flow_graphs |-> NoFixedPoint]

\* A client calls ResetMatches on the primary or on the secondary flow
\* graphs once Diff has returned.
DoResetMatches ==
    /\ pc = "done"
    /\ \E flow_graphs \in {"primary_flow_graphs_", "secondary_flow_graphs_"} :
           context' = [context EXCEPT ![flow_graphs] = ResetMatches(@)]
    /\ UNCHANGED <<primary_call_graph_, secondary_call_graph_,
                   matching_steps_for_current_level, pc, cursor,
                   more_fixed_points_discovered, callref_todo, last_call,
                   passes, classified>>
    /\ UNCHANGED levels
    /\ UNCHANGED other_than_diff

DiffNext ==
    \/ DiffLevel
    \/ PropagateChildren
    \/ ChildrenDone
    \/ PropagateParents
    \/ ParentsDone
    \/ CallReference
    \/ CallReferenceDone
    \/ DiffClassify

\* Diff is not the only function of differ.cc that a client calls on the
\* flow graphs: ResetMatches is no step of Diff, and comes after it.
ResetNext == DiffNext \/ DoResetMatches

(***************************************************************************)
(* The readers: the initial state and the steps.                           *)
(***************************************************************************)
ReadInit ==
    /\ reader = NewReader
    /\ read_file \in BrokenFiles
    /\ primary_call_graph_ = Chain(0)
    /\ secondary_call_graph_ = Chain(0)
    /\ context = EmptyContext(Chain(0), Chain(0))
    /\ matching_steps_for_current_level = <<>>
    /\ pc = "idle"
    /\ cursor = 0
    /\ more_fixed_points_discovered = FALSE
    /\ callref_todo = {}
    /\ last_call = NoCall
    /\ passes = 0
    /\ classified = 0
    /\ levels = <<>>
    /\ program1 = IdleProgram
    /\ program2 = IdleProgram
    /\ scored_fixed_points = {}
    /\ caller_histogram = <<>>
    /\ caller_counts = <<>>
    /\ count_calls = 0
    /\ program_similarity = NoValue
    /\ flow_graph_similarity = NoSimilarity
    /\ scoped_cleanup = NoCleanup
    /\ config_setup = NoConfigSetup

\* A caller reads a file into its containers; a reader whose check failed
\* has ended the process.
DoRead ==
    /\ reader.status # "aborted"
    /\ \E file \in Files :
          /\ reader' = Read(file, Begin(reader, "Read"))
          /\ read_file' = file
    /\ UNCHANGED other_than_read

DoReadGoogle ==
    /\ reader.status # "aborted"
    /\ \E file \in Files :
          /\ reader' = ReadGoogle(file, Begin(reader, "ReadGoogle"))
          /\ read_file' = file
    /\ UNCHANGED other_than_read

ReadNext == DoRead \/ DoReadGoogle

(***************************************************************************)
(* Scoring: the initial state and the steps.  A caller owns a Histogram    *)
(* and a Counts, fills them with GetCountsAndHistogram and hands them to   *)
(* the similarity functions.                                               *)
(***************************************************************************)
ScoreInit ==
    /\ program1 \in ScorePrograms
    /\ program2 \in ScorePrograms
    /\ scored_fixed_points \in FixedPointSets(program1, program2)
    /\ caller_histogram = <<>>
    /\ caller_counts = <<>>
    /\ count_calls = 0
    /\ program_similarity = NoValue
    /\ flow_graph_similarity = NoSimilarity
    /\ scoped_cleanup = NoCleanup
    /\ config_setup = NoConfigSetup
    /\ primary_call_graph_ = Chain(0)
    /\ secondary_call_graph_ = Chain(0)
    /\ context = EmptyContext(Chain(0), Chain(0))
    /\ matching_steps_for_current_level = <<>>
    /\ pc = "idle"
    /\ cursor = 0
    /\ more_fixed_points_discovered = FALSE
    /\ callref_todo = {}
    /\ last_call = NoCall
    /\ passes = 0
    /\ classified = 0
    /\ levels = <<>>
    /\ reader = NewReader
    /\ read_file = NoFile

\* GetCountsAndHistogram(flow_graphs1, flow_graphs2, fixed_points,
\*                       &histogram, &counts) on the caller's objects.
DoGetCountsAndHistogram ==
    /\ count_calls < MaxCalls
    /\ LET result ==
               GetCountsAndHistogram(program1.flow_graphs,
                                     program2.flow_graphs,
                                     scored_fixed_points, caller_histogram,
                                     caller_counts)
       IN  /\ caller_histogram' = result.histogram
           /\ caller_counts' = result.counts
    /\ count_calls' = count_calls + 1
    /\ UNCHANGED <<program1, program2, scored_fixed_points,
                   program_similarity, flow_graph_similarity>>
    /\ UNCHANGED other_than_score

\* A caller that counts by itself: Count(fixed_point, &counts, &histogram)
\* on its objects.  The match counts of the fixed point are written over
\* the caller's, the histogram is added to.
DoCount ==
    /\ count_calls < MaxCalls
    /\ \E fixed_point \in scored_fixed_points :
          LET result ==
                  CountFixedPoint(fixed_point, program1.flow_graphs,
                                  program2.flow_graphs, caller_histogram)
          IN  /\ caller_histogram' = result.histogram
              /\ caller_counts' = result.counts @@ caller_counts
    /\ count_calls' = count_calls + 1
    /\ UNCHANGED <<program1, program2, scored_fixed_points,
                   program_similarity, flow_graph_similarity>>
    /\ UNCHANGED other_than_score

\* GetSimilarityScore(call_graph1, call_graph2, histogram, counts).
DoGetSimilarityScore ==
    /\ count_calls > 0
    /\ program_similarity' =
           GetSimilarityScoreCallGraph(program1, program2, caller_histogram,
                                       caller_counts)
    /\ UNCHANGED <<program1, program2, scored_fixed_points, caller_histogram,
                   caller_counts, count_calls, flow_graph_similarity>>
    /\ UNCHANGED other_than_score

\* The score of one matched pair: counts and histogram of the pair alone,
\* then GetSimilarityScore(flow_graph1, flow_graph2, histogram, counts).
DoGetFlowGraphSimilarityScore ==
    /\ \E fixed_point \in scored_fixed_points :
          LET pair ==
                  GetCountsAndHistogram(
                      Only(program1.flow_graphs, fixed_point.primary),
                      Only(program2.flow_graphs, fixed_point.secondary),
                      {fixed_point}, <<>>, <<>>)
          IN  flow_graph_similarity' =
                  [fixed_point |-> fixed_point,
                   similarity |->
                       GetSimilarityScoreFlowGraph(
                           program1.flow_graphs[fixed_point.primary],
                           program2.flow_graphs[fixed_point.secondary],
                           pair.histogram, pair.counts)]
    /\ UNCHANGED <<program1, program2, scored_fixed_points, caller_histogram,
                   caller_counts, count_calls, program_similarity>>
    /\ UNCHANGED other_than_score

ScoreNext ==
    \/ DoGetCountsAndHistogram
    \/ DoGetSimilarityScore
    \/ DoGetFlowGraphSimilarityScore

(***************************************************************************)
(* The cleanup owner: the initial state and the steps.                     *)
(***************************************************************************)
CleanupInit ==
    /\ scoped_cleanup \in
           {NewScopedCleanup(flow_graphs1, flow_graphs2, instruction_cache) :
                flow_graphs1 \in {0, 1}, flow_graphs2 \in {0, 2},
                instruction_cache \in BOOLEAN}
    /\ config_setup = NoConfigSetup
    /\ reader = NewReader
    /\ read_file = NoFile
    /\ primary_call_graph_ = Chain(0)
    /\ secondary_call_graph_ = Chain(0)
    /\ context = EmptyContext(Chain(0), Chain(0))
    /\ matching_steps_for_current_level = <<>>
    /\ pc = "idle"
    /\ cursor = 0
    /\ more_fixed_points_discovered = FALSE
    /\ callref_todo = {}
    /\ last_call = NoCall
    /\ passes = 0
    /\ classified = 0
    /\ levels = <<>>
    /\ program1 = IdleProgram
    /\ program2 = IdleProgram
    /\ scored_fixed_points = {}
    /\ caller_histogram = <<>>
    /\ caller_counts = <<>>
    /\ count_calls = 0
    /\ program_similarity = NoValue
    /\ flow_graph_similarity = NoSimilarity

\* Inside the scope of the owner, a file is read into one of the two sets,
\* with the one instruction cache; every object the set ever held stays on
\* record.  A reader whose check failed has ended the process.
CleanupRead ==
    /\ ~scoped_cleanup.released
    /\ scoped_cleanup.reads < MaxReads
    /\ \A i \in 1..2 : scoped_cleanup.sets[i].status # "aborted"
    /\ \E i \in 1..2, file \in CleanupFiles, google \in BOOLEAN :
          LET target == scoped_cleanup.sets[i]
              begun ==
                  [Begin(target, IF google THEN "ReadGoogle" ELSE "Read")
                       EXCEPT !.heap = target.heap,
                              !.instruction_cache = scoped_cleanup.cache]
              read == IF google
                      THEN ReadGoogle(file, begun)
                      ELSE Read(file, begun)
          IN  scoped_cleanup' =
                  [scoped_cleanup EXCEPT !.sets[i] = read,
                                         !.cache = read.instruction_cache,
                                         !.reads = @ + 1]
    /\ UNCHANGED <<diff_vars, read_vars, score_vars, config_setup>>

\* ~ScopedCleanup(), lines 391-397, on every way out of the scope.
Release ==
    /\ ~scoped_cleanup.released
    /\ \A i \in 1..2 : scoped_cleanup.sets[i].status # "aborted"
    /\ scoped_cleanup' =
           [scoped_cleanup EXCEPT
               !.sets[1] = IF scoped_cleanup.flow_graphs1_ = 0
                           THEN @
                           ELSE DeleteFlowGraphs(@),
               !.sets[2] = IF scoped_cleanup.flow_graphs2_ = 0
                           THEN @
                           ELSE DeleteFlowGraphs(@),
               !.cache = IF scoped_cleanup.instruction_cache_
                         THEN {}
                         ELSE @,
               !.released = TRUE]
    /\ UNCHANGED <<diff_vars, read_vars, score_vars, config_setup>>

CleanupNext == CleanupRead \/ Release

\* A caller that fills its Histogram and Counts fixed point by fixed point,
\* or all at once.
CountNext == DoCount \/ DoGetCountsAndHistogram

(***************************************************************************)
(* The configuration utility: the initial state, its runs and their end.   *)
(***************************************************************************)
ConfigInit ==
    /\ config_setup \in
           {[NoConfigSetup EXCEPT !.files = files] :
                files \in [FileNames ->
                              {Missing, Garbage, AsJsonString(Defaults),
                               AsJsonString(Proto)}]}
    /\ scoped_cleanup = NoCleanup
    /\ reader = NewReader
    /\ read_file = NoFile
    /\ primary_call_graph_ = Chain(0)
    /\ secondary_call_graph_ = Chain(0)
    /\ context = EmptyContext(Chain(0), Chain(0))
    /\ matching_steps_for_current_level = <<>>
    /\ pc = "idle"
    /\ cursor = 0
    /\ more_fixed_points_discovered = FALSE
    /\ callref_todo = {}
    /\ last_call = NoCall
    /\ passes = 0
    /\ classified = 0
    /\ levels = <<>>
    /\ program1 = IdleProgram
    /\ program2 = IdleProgram
    /\ scored_fixed_points = {}
    /\ caller_histogram = <<>>
    /\ caller_counts = <<>>
    /\ count_calls = 0
    /\ program_similarity = NoValue
    /\ flow_graph_similarity = NoSimilarity

\* One run of the utility without --per_user.
DoConfigSetupMain ==
    /\ config_setup.status = "none"
    /\ \E config \in {""} \cup FileNames, print_only \in BOOLEAN,
          help_settings \in BOOLEAN, positional \in SeqsUpTo(Args, MaxArgs),
          extra \in 0..MaxExtra,
          io \in {"ok", "serialization fails", "open fails", "write fails"} :
          LET flags == Flags(config, print_only, help_settings, FALSE)
          IN  config_setup' =
                  ConfigSetupMain(MinArgc(flags, positional) + extra, flags,
                                  positional, config_setup.files,
                                  config_setup.links, io, Plugins, "none")
    /\ UNCHANGED <<diff_vars, read_vars, score_vars, scoped_cleanup>>

\* One run of the utility with --per_user: in a command line of one
\* argument, in which case PerUserSetup meets the plugins installed and the
\* file system, or in any command line.
DoPerUserSetup ==
    /\ config_setup.status = "none"
    /\ \/ \E config \in {""} \cup FileNames, print_only \in BOOLEAN,
             help_settings \in BOOLEAN, installed \in SUBSET Plugins,
             failing \in {"none"} \cup PerUserFailures :
             config_setup' =
                 ConfigSetupMain(2, Flags(config, print_only, help_settings,
                                          TRUE),
                                 <<>>, config_setup.files,
                                 config_setup.links, "ok", installed, failing)
       \/ \E config \in {""} \cup FileNames, print_only \in BOOLEAN,
             help_settings \in BOOLEAN,
             positional \in SeqsUpTo(Args, MaxArgs),
             extra \in 0..MaxExtra :
             LET flags == Flags(config, print_only, help_settings, TRUE)
             IN  config_setup' =
                     ConfigSetupMain(MinArgc(flags, positional) + extra,
                                     flags, positional, config_setup.files,
                                     config_setup.links, "ok", Plugins,
                                     "none")
    /\ UNCHANGED <<diff_vars, read_vars, score_vars, scoped_cleanup>>

\* main (lines 275-283) returns and the process ends: the files and the
\* links stay.
Exit ==
    /\ config_setup.status # "none"
    /\ config_setup' =
           [NoConfigSetup EXCEPT !.files = config_setup.files,
                                 !.links = config_setup.links]
    /\ UNCHANGED <<diff_vars, read_vars, score_vars, scoped_cleanup>>

ConfigNext == DoConfigSetupMain \/ DoPerUserSetup \/ Exit

(***************************************************************************)
(* Specifications: one per subsystem, the other variables idle.            *)
(***************************************************************************)
DiffSpec == DiffInit /\ [][DiffNext]_vars

\* Diff is one sequential procedure of a single thread: it keeps running
\* until it returns.
DiffFairSpec == DiffSpec /\ WF_vars(DiffNext)

ResetSpec == DiffInit /\ [][ResetNext]_vars

ReadSpec == ReadInit /\ [][ReadNext]_vars

ScoreSpec == ScoreInit /\ [][ScoreNext]_vars

CleanupSpec == CleanupInit /\ [][CleanupNext]_vars

CountSpec == ScoreInit /\ [][CountNext]_vars

ConfigSpec == ConfigInit /\ [][ConfigNext]_vars

Matched(flow_graphs) ==
    {v \in DOMAIN flow_graphs : flow_graphs[v] # NoFixedPoint}

(***************************************************************************)
(* C1: in every state of Diff, and so after it, no primary flow graph and  *)
(* no secondary flow graph belongs to two fixed points of the store, the   *)
(* flow graphs of every stored fixed point point back at it, and the       *)
(* candidate sets that GetUnmatchedChildren / GetUnmatchedParents hand to  *)
(* a step hold no flow graph that is matched already.                      *)
(***************************************************************************)
FixedPointUniqueness ==
    /\ \A f, g \in context.fixed_points_ :
           (f.primary = g.primary \/ f.secondary = g.secondary) => f = g
    /\ \A f \in context.fixed_points_ :
           /\ context.primary_flow_graphs_[f.primary] = f
           /\ context.secondary_flow_graphs_[f.secondary] = f
    /\ \A v \in Matched(context.primary_flow_graphs_) :
           context.primary_flow_graphs_[v] \in context.fixed_points_
    /\ \A v \in Matched(context.secondary_flow_graphs_) :
           context.secondary_flow_graphs_[v] \in context.fixed_points_
    /\ last_call.kind \in {"children", "parents"} =>
           /\ last_call.primary_matched = {}
           /\ last_call.secondary_matched = {}

\* Diff has returned with several fixed points, the last step invocation
\* being a propagation over candidate sets.
FixedPointUniquenessWitness ==
    /\ pc = "done"
    /\ Cardinality(context.fixed_points_) >= 2
    /\ last_call.kind \in {"children", "parents"}
    /\ last_call.primary # {}

(***************************************************************************)
(* C3: no step of Diff removes a fixed point from the store or turns a     *)
(* matched flow graph back into an unmatched one; only new_fixed_points_   *)
(* is ever cleared.                                                        *)
(***************************************************************************)
MonotoneMatchSet ==
    [][/\ context.fixed_points_ \subseteq context'.fixed_points_
       /\ \A v \in Matched(context.primary_flow_graphs_) :
              context'.primary_flow_graphs_[v] =
                  context.primary_flow_graphs_[v]
       /\ \A v \in Matched(context.secondary_flow_graphs_) :
              context'.secondary_flow_graphs_[v] =
                  context.secondary_flow_graphs_[v]]_vars

\* A later rigor level has cleared new_fixed_points_ while the store keeps
\* the fixed points of the earlier level.
MonotoneMatchSetWitness ==
    /\ pc = "children"
    /\ Len(matching_steps_for_current_level) < NumSteps
    /\ context.new_fixed_points_ = {}
    /\ context.fixed_points_ # {}

(***************************************************************************)
(* C4 as stated: the passes of the propagation loop of a level never       *)
(* exceed the total vertex count of the two call graphs, and Diff reaches  *)
(* ClassifyChanges and returns.                                            *)
(***************************************************************************)
PassesWithinVertexCount ==
    /\ [](passes <= primary_call_graph_.n + secondary_call_graph_.n)
    /\ <>(pc = "done" /\ classified = 1)

(***************************************************************************)
(* C4 as amended: the propagation loop makes at most one pass more than    *)
(* the fixed points discovered in its level, so at most one more than the  *)
(* smaller vertex count, which is within the total vertex count unless     *)
(* both call graphs are empty; Diff reaches ClassifyChanges and returns.   *)
(***************************************************************************)
PropagationTerminates ==
    /\ [](/\ passes <= 1 + Cardinality(context.new_fixed_points_)
          /\ passes <= 1 + Min(primary_call_graph_.n,
                               secondary_call_graph_.n)
          /\ primary_call_graph_.n + secondary_call_graph_.n > 0 =>
                 passes <= primary_call_graph_.n + secondary_call_graph_.n)
    /\ <>(pc = "done" /\ classified = 1)

\* A level whose propagation loop discovered a fixed point and so repeated
\* has finished, and Diff has returned.
PropagationTerminatesWitness ==
    /\ pc = "done"
    /\ classified = 1
    /\ passes >= 2

(***************************************************************************)
(* What a read did, from the reader's log.                                 *)
(***************************************************************************)
Invocations(m, ops) == {i \in DOMAIN m.log : m.log[i].op \in ops}

NewFormatDecoders == {"ReadBinExport2", "ReadBinExport2Google"}

LegacyDecoders == {"ReadBinExport", "ReadBinExportGoogle"}

\* The read has returned, thrown or ended the process.
Failed(m) == m.status \in {"false", "threw", "aborted"}

Succeeded(m) == m.status \in {"ok", "true"}

\* The size of a record as the legacy decoders compute it.
RecordSize(file, record) ==
    Sub32(file.offsets[record + 1], file.offsets[record])

LegacyRecords(file) == 1..(Len(file.offsets) - 1)

(***************************************************************************)
(* C2: after a load completes, every call-graph vertex has a flow graph;   *)
(* a vertex that had none before AddSubsToCallGraph owns an empty flow     *)
(* graph at its address, in the flow-graph set, with stub and library set; *)
(* a vertex that had one keeps it and keeps its flags.                     *)
(***************************************************************************)
StubInvariant ==
    Succeeded(reader) =>
        LET before == reader.before_stubs
            after == reader.call_graph.vertices
        IN  /\ DOMAIN after = DOMAIN before
            /\ \A a \in DOMAIN after :
                   /\ after[a].flow_graph # NoFlowGraph
                   /\ before[a].flow_graph = NoFlowGraph =>
                          /\ after[a].flow_graph = FlowGraph(a, <<>>, <<>>, {})
                          /\ after[a].flow_graph \in reader.flow_graphs
                          /\ after[a].stub
                          /\ after[a].library
                   /\ before[a].flow_graph # NoFlowGraph =>
                          after[a] = before[a]

\* A load completed in which a non-library vertex got a stub and another
\* vertex kept the flow graph the decoder read for it.
StubInvariantWitness ==
    /\ Succeeded(reader)
    /\ \E a \in DOMAIN reader.before_stubs :
           /\ reader.before_stubs[a].flow_graph = NoFlowGraph
           /\ ~reader.before_stubs[a].library
    /\ \E a \in DOMAIN reader.before_stubs :
           reader.before_stubs[a].flow_graph # NoFlowGraph

(***************************************************************************)
(* C5: a read invokes the new-format decoder first (unless the File-based  *)
(* variant cannot open the file); when that decoder succeeds no legacy     *)
(* decoder is invoked; when it fails the legacy decoder is invoked exactly *)
(* once, afterwards, and in the File-based variant after a Seek that puts  *)
(* the file back at offset 0.                                              *)
(***************************************************************************)
NewFormatFirst ==
    reader.entry # "none" =>
        LET new_format == Invocations(reader, NewFormatDecoders)
            legacy == Invocations(reader, LegacyDecoders)
            parses == read_file.exists /\ read_file.binexport2
        IN  /\ reader.entry = "Read" =>
                /\ new_format = {1}
                /\ reader.log[1].op = "ReadBinExport2"
                /\ ~parses => /\ legacy = {2}
                              /\ reader.log[2].op = "ReadBinExport"
            /\ reader.entry = "ReadGoogle" /\ ~read_file.exists =>
                reader.log = <<>>
            /\ reader.entry = "ReadGoogle" /\ read_file.exists =>
                /\ new_format = {1}
                /\ reader.log[1].op = "ReadBinExport2Google"
                /\ ~parses => /\ reader.log[2].op = "Seek"
                              /\ legacy = {3}
                              /\ reader.log[3].op = "ReadBinExportGoogle"
                              /\ reader.log[3].index = 0
            /\ parses => legacy = {} /\ Succeeded(reader)

\* The File-based read fell back to the legacy decoder, which loaded the
\* program.
NewFormatFirstWitness ==
    /\ reader.entry = "ReadGoogle"
    /\ Invocations(reader, {"Seek"}) # {}
    /\ Invocations(reader, LegacyDecoders) # {}
    /\ reader.status = "true"
    /\ reader.flow_graphs # {}

(***************************************************************************)
(* C6: whenever a legacy decoder runs on a file one of whose records is    *)
(* larger than 500 MB, the read fails, and no buffer or parse limit of     *)
(* such a size is set up.                                                  *)
(***************************************************************************)
SizeGuard ==
    (/\ Invocations(reader, LegacyDecoders) # {}
     /\ read_file.header_ok
     /\ \E r \in LegacyRecords(read_file) :
            Less32(ToU32(kMaxRecordSize), RecordSize(read_file, r))) =>
        /\ Failed(reader)
        /\ \A i \in Invocations(reader, {"buffer", "limit"}) :
               ~Less32(ToU32(kMaxRecordSize), reader.log[i].size)

(***************************************************************************)
(* C7: whenever a legacy decoder runs on a file whose flow-graph offsets   *)
(* decrease at some pair k, k + 1, the read fails, and for no such pair    *)
(* does the record pass the size check or lead to an inserted flow graph.  *)
(***************************************************************************)
DecreasingOffsetsFail ==
    LET decreasing ==
            {k \in 0..(num_flow_graphs(read_file) - 1) :
                Less32(flow_graph_offsets(read_file, k + 1),
                       flow_graph_offsets(read_file, k))}
    IN  (/\ Invocations(reader, LegacyDecoders) # {}
         /\ read_file.header_ok
         /\ decreasing # {}) =>
            /\ Failed(reader)
            /\ \A i \in Invocations(reader, {"buffer", "limit", "insert"}) :
                   \A k \in decreasing : reader.log[i].index # 3 + k

(***************************************************************************)
(* C8: whenever a read that invoked a decoder fails and control returns to *)
(* the caller, the call graph, the flow-graph set and flow_graph_infos     *)
(* hold nothing of the file.                                               *)
(***************************************************************************)
NoPartialResult ==
    (reader.status \in {"false", "threw"} /\ reader.log # <<>>) =>
        /\ reader.call_graph = EmptyCallGraph
        /\ reader.flow_graphs = {}
        /\ reader.flow_graph_infos = {}

(***************************************************************************)
(* Self-diff: the two programs are the same and the fixed points match     *)
(* every function with itself, every basic block with itself and every     *)
(* instruction.                                                            *)
(***************************************************************************)
MatchesAll(fixed_point, flow_graph) ==
    {<<b.primary_vertex, b.secondary_vertex, b.instruction_matches>> :
        b \in fixed_point.basic_block_fixed_points} =
    {<<v, v, flow_graph.instructions[v]>> :
        v \in DOMAIN flow_graph.instructions}

SelfDiff ==
    /\ program1 = program2
    /\ program1.flow_graphs # <<>>
    /\ \A a \in DOMAIN program1.flow_graphs :
           \E f \in scored_fixed_points :
               /\ f.primary = a
               /\ f.secondary = a
               /\ MatchesAll(f, program1.flow_graphs[a])

(***************************************************************************)
(* C9: in a self-diff, with every function, basic block, instruction and   *)
(* edge matched, the whole-program similarity is exactly 1.0 and the       *)
(* similarity of every matched pair of flow graphs is exactly 1.0.         *)
(***************************************************************************)
SelfDiffSimilarityIsOne ==
    SelfDiff =>
        /\ program_similarity # NoValue =>
               program_similarity = FromInt(1)
        /\ flow_graph_similarity # NoSimilarity =>
               flow_graph_similarity.similarity = FromInt(1)

(***************************************************************************)
(* C10: with no function fixed point, GetCountsAndHistogram leaves every   *)
(* match count at 0 and the histogram empty, GetConfidence of it is 0, and *)
(* the whole-program similarity is 0 whatever the two programs are.        *)
(***************************************************************************)
EmptyDiff ==
    (scored_fixed_points = {} /\ count_calls > 0) =>
        /\ \A k \in MatchKeys : caller_counts[k] = 0
        /\ caller_histogram = <<>>
        /\ GetConfidence(caller_histogram) = 0
        /\ program_similarity # NoValue => program_similarity = 0

\* Two different programs with functions and no fixed point were scored.
EmptyDiffWitness ==
    /\ scored_fixed_points = {}
    /\ program1 # program2
    /\ program1.flow_graphs # <<>>
    /\ program2.flow_graphs # <<>>
    /\ count_calls > 0
    /\ program_similarity = 0

(***************************************************************************)
(* Confidence of a histogram that gains one match (src/differ.cc:587-612). *)
(***************************************************************************)
\* Lines 604-607: the two sums of GetConfidence's loop.
WeightedSum(histogram) ==
    Total([n \in DOMAIN histogram |-> histogram[n] * ConfidenceOf(n)])

MatchCount(histogram) == Total(histogram)

\* The steps whose confidence lies above the midpoint of the sigmoid.
HighConfidenceSteps ==
    {n \in DOMAIN Confidences : ConfidenceOf(n) > Scale \div 2}

\* C11 (as stated): one more match of a high-confidence step, every other
\* entry unchanged, strictly increases the weighted mean (compared without
\* rounding) and the value of GetConfidence, whatever the histogram held
\* before.
ConfidenceStrictlyIncreases ==
    [][\A name \in HighConfidenceSteps :
           caller_histogram' = Increment(caller_histogram, name) =>
               /\ MatchCount(caller_histogram) > 0 =>
                      WeightedSum(caller_histogram')
                              * MatchCount(caller_histogram)
                          > WeightedSum(caller_histogram)
                              * MatchCount(caller_histogram')
               /\ GetConfidence(caller_histogram')
                      > GetConfidence(caller_histogram)]_vars

\* C11 (amended): one more match of a step, every other entry unchanged,
\* moves the weighted mean toward the confidence of that step: the mean
\* increases exactly when the confidence of the step is above the mean, and
\* stays the same when the two are equal, as they are when every entry
\* belongs to that step or to steps of the same confidence, and decreases
\* when it is below.  GetConfidence strictly increases when the mean does,
\* is unchanged when the mean is, strictly decreases when the mean does,
\* and rises from 0 when the histogram was empty.
ConfidenceFollowsMean ==
    [][\A name \in DOMAIN Confidences \cup FunctionStepNames :
           caller_histogram' = Increment(caller_histogram, name) =>
               LET before == caller_histogram
                   after == caller_histogram'
                   above == ConfidenceOf(name) * MatchCount(before)
                                > WeightedSum(before)
                   level == ConfidenceOf(name) * MatchCount(before)
                                = WeightedSum(before)
                   greater == WeightedSum(after) * MatchCount(before)
                                  > WeightedSum(before) * MatchCount(after)
                   equal == WeightedSum(after) * MatchCount(before)
                                = WeightedSum(before) * MatchCount(after)
               IN  IF MatchCount(before) = 0
                   THEN GetConfidence(before) = 0 /\ GetConfidence(after) > 0
                   ELSE /\ greater <=> above
                        /\ equal <=> level
                        /\ above =>
                               GetConfidence(after) > GetConfidence(before)
                        /\ level =>
                               GetConfidence(after) = GetConfidence(before)
                        /\ (~above /\ ~level) =>
                               GetConfidence(after) < GetConfidence(before)
          ]_vars

\* Two matches of the hash step were counted one after the other: the second
\* found a histogram whose entries all belonged to its step, and the
\* confidence stayed where it was.
ConfidenceFollowsMeanWitness ==
    /\ count_calls = 2
    /\ caller_histogram = ("function: hash matching" :> 2)
    /\ GetConfidence(caller_histogram)
           = GetConfidence("function: hash matching" :> 1)

\* C12: the edge matches that Count reports for a fixed point are the edges
\* (u, v) of the primary flow graph whose ends are matched to u' and v' with
\* an edge (u', v') in the secondary flow graph; a primary edge counts once
\* however many parallel edges (u', v') there are, so the edge matches never
\* exceed the edges of the primary flow graph.
EdgeMatchCount ==
    \A fixed_point \in scored_fixed_points :
        LET primary == program1.flow_graphs[fixed_point.primary]
            secondary == program2.flow_graphs[fixed_point.secondary]
            basic_blocks == fixed_point.basic_block_fixed_points
            counts ==
                CountFixedPoint(fixed_point, program1.flow_graphs,
                                program2.flow_graphs, <<>>).counts
            Images(v) ==
                {b.secondary_vertex :
                     b \in {c \in basic_blocks : c.primary_vertex = v}}
            joined ==
                {j \in DOMAIN primary.edges :
                    \E u \in Images(primary.edges[j][1]),
                       v \in Images(primary.edges[j][2]) :
                        <<u, v>> \in Range(secondary.edges)}
            edge_matches ==
                counts["flowGraph edge matches (library)"]
                    + counts["flowGraph edge matches (non-library)"]
        IN  /\ edge_matches = Cardinality(joined)
            /\ edge_matches <= Len(primary.edges)
            /\ (count_calls = 1 /\ scored_fixed_points = {fixed_point}) =>
                   \A k \in {"flowGraph edge matches (library)",
                             "flowGraph edge matches (non-library)"} :
                       caller_counts[k] = counts[k]

\* Count ran on a fixed point whose primary flow graph has one edge and whose
\* secondary flow graph has two parallel edges between the images of its
\* ends: one edge match.
EdgeMatchCountWitness ==
    /\ count_calls = 1
    /\ \E fixed_point \in scored_fixed_points :
          /\ scored_fixed_points = {fixed_point}
          /\ program1.flow_graphs[fixed_point.primary] = TwoBlocks
          /\ program2.flow_graphs[fixed_point.secondary] = LibraryBranch
          /\ Cardinality(fixed_point.basic_block_fixed_points) = 2
    /\ caller_counts["flowGraph edge matches (library)"] = 1

\* C13: the similarity of a pair of flow graphs is exactly 1.0 when the
\* matched basic blocks are all the basic blocks of both flow graphs and the
\* matched instructions all the instructions of both, whatever the edges,
\* the MD indices and the confidence of the histogram are (two stubs, with
\* nothing to match, included); in every other case it is the weighted
\* score times the confidence, and so at most the confidence.
FlowGraphShortcut ==
    flow_graph_similarity # NoSimilarity =>
        LET fixed_point == flow_graph_similarity.fixed_point
            primary == program1.flow_graphs[fixed_point.primary]
            secondary == program2.flow_graphs[fixed_point.secondary]
            basic_blocks == fixed_point.basic_block_fixed_points
            instruction_matches ==
                Total([b \in basic_blocks |-> b.instruction_matches])
            pair ==
                GetCountsAndHistogram(
                    Only(program1.flow_graphs, fixed_point.primary),
                    Only(program2.flow_graphs, fixed_point.secondary),
                    {fixed_point}, <<>>, <<>>)
            confidence == GetConfidence(pair.histogram)
            library == primary.library \/ secondary.library
            edge_matches ==
                pair.counts[IF library
                            THEN "flowGraph edge matches (library)"
                            ELSE "flowGraph edge matches (non-library)"]
            weighted ==
                Min(Share(550, edge_matches, Len(primary.edges),
                          Len(secondary.edges))
                    + Share(300, Cardinality(basic_blocks),
                            Len(primary.instructions),
                            Len(secondary.instructions))
                    + Share(150, instruction_matches,
                            Sum(primary.instructions),
                            Sum(secondary.instructions)),
                    Scale)
        IN  IF /\ Cardinality(basic_blocks) = Len(primary.instructions)
               /\ Cardinality(basic_blocks) = Len(secondary.instructions)
               /\ instruction_matches = Sum(primary.instructions)
               /\ instruction_matches = Sum(secondary.instructions)
            THEN flow_graph_similarity.similarity = FromInt(1)
            ELSE /\ flow_graph_similarity.similarity
                        = Times((weighted
                                 + MdIndexShare(primary.md_index,
                                                secondary.md_index)) \div 2,
                                confidence)
                 /\ flow_graph_similarity.similarity <= confidence
                 /\ flow_graph_similarity.similarity < FromInt(1)

\* The pair of two stubs was scored: nothing to match on either side, a
\* histogram of one match whose step has confidence 0, the result 1.0.
FlowGraphShortcutWitness ==
    /\ flow_graph_similarity # NoSimilarity
    /\ program1.flow_graphs[flow_graph_similarity.fixed_point.primary] = Stub
    /\ program2.flow_graphs[flow_graph_similarity.fixed_point.secondary]
           = Stub
    /\ flow_graph_similarity.fixed_point.step = "function: manual"
    /\ flow_graph_similarity.similarity = FromInt(1)

\* C14: when the cleanup owner is released, each flow-graph set it was given
\* is empty and the instruction cache it was given is cleared; over every
\* sequence of reads (each deletes and clears its target set first) and the
\* release, no flow graph that was inserted into a set, stubs included, is
\* deleted twice, and after the release each has been deleted exactly once;
\* a null set or cache pointer is skipped.
CleanupDeletesOnce ==
    LET owned(i) == IF i = 1
                    THEN scoped_cleanup.flow_graphs1_ # 0
                    ELSE scoped_cleanup.flow_graphs2_ # 0
    IN  /\ \A i \in 1..2 :
               LET heap == scoped_cleanup.sets[i].heap
                   flow_graphs == scoped_cleanup.sets[i].flow_graphs
               IN  /\ \A k \in DOMAIN heap :
                          /\ heap[k].deletes <= 1
                          /\ heap[k].member <=> heap[k].deletes = 0
                          /\ heap[k].member =>
                                 heap[k].flow_graph \in flow_graphs
                   /\ (scoped_cleanup.released /\ owned(i)) =>
                          /\ flow_graphs = {}
                          /\ \A k \in DOMAIN heap : heap[k].deletes = 1
                   /\ (scoped_cleanup.released /\ ~owned(i)) =>
                          flow_graphs
                              = {heap[k].flow_graph :
                                   k \in {x \in DOMAIN heap : heap[x].member}}
        /\ (scoped_cleanup.released /\ scoped_cleanup.instruction_cache_) =>
               scoped_cleanup.cache = {}

\* The owner of both sets and the cache was released after two reads into
\* the first set: the flow graphs and the stub of the first read, deleted by
\* the second read, and those of the second read, deleted by the release.
CleanupDeletesOnceWitness ==
    /\ scoped_cleanup.released
    /\ scoped_cleanup.flow_graphs1_ = 1
    /\ scoped_cleanup.instruction_cache_
    /\ scoped_cleanup.reads = 2
    /\ Len(scoped_cleanup.sets[1].heap) >= 4
    /\ \E k \in DOMAIN scoped_cleanup.sets[1].heap :
           /\ scoped_cleanup.sets[1].heap[k].flow_graph
                  = FlowGraph(48, <<>>, <<>>, {})
           /\ scoped_cleanup.sets[1].heap[k].deletes = 1

\* C15: Diff runs one rigor level per entry of default_call_graph_steps, in
\* the order of the list: the active step of level k is the k-th entry, the
\* head of the current list; new_fixed_points_ is cleared before the step is
\* invoked; the seed invocation has no parent fixed point and receives the
\* unmatched flow graphs of both programs, with the whole current list as
\* the remaining steps; the head is popped after the level, and Diff ends
\* when the list is empty.
RigorLevels ==
    [][/\ (pc = "level" /\ pc' = "children") =>
              /\ last_call'.kind = "seed"
              /\ last_call'.parent = NoFixedPoint
              /\ last_call'.matching_steps = matching_steps_for_current_level
              /\ last_call'.step =
                     default_call_graph_steps[
                         NumSteps - Len(matching_steps_for_current_level) + 1]
              /\ context'.new_fixed_points_
                     = context'.fixed_points_ \ context.fixed_points_
              /\ last_call'.primary =
                     {v \in Vertices(primary_call_graph_) :
                         context.primary_flow_graphs_[v] = NoFixedPoint}
              /\ last_call'.secondary =
                     {v \in Vertices(secondary_call_graph_) :
                         context.secondary_flow_graphs_[v] = NoFixedPoint}
       /\ (pc' = "level" /\ pc # "level") =>
              /\ pc = "callref"
              /\ matching_steps_for_current_level'
                     = Tail(matching_steps_for_current_level)
       /\ (pc' # "level" \/ pc = "level") =>
              matching_steps_for_current_level'
                  = matching_steps_for_current_level
       /\ pc' = "done" =>
              pc = "level" /\ matching_steps_for_current_level = <<>>
      ]_vars

\* C16 (as stated): the unmatched flow graphs that the active step of a
\* later rigor level sees are strictly fewer than those of every earlier
\* level, in the primary and in the secondary program.
UnmatchedStrictlySmaller ==
    \A i, j \in DOMAIN levels :
        i < j =>
            /\ levels[j].primary_unmatched \subseteq levels[i].primary_unmatched
            /\ levels[j].primary_unmatched # levels[i].primary_unmatched
            /\ levels[j].secondary_unmatched
                   \subseteq levels[i].secondary_unmatched
            /\ levels[j].secondary_unmatched # levels[i].secondary_unmatched

\* C16 (amended): the unmatched flow graphs that a later rigor level sees
\* are among those of every earlier level, in both programs; they are
\* strictly fewer exactly when a fixed point was stored between the two
\* levels, and the same when none was.
UnmatchedNeverGrows ==
    \A i, j \in DOMAIN levels :
        i < j =>
            LET stored == levels[j].fixed_points \ levels[i].fixed_points
            IN  /\ levels[j].primary_unmatched
                       = levels[i].primary_unmatched
                             \ {f.primary : f \in stored}
                /\ levels[j].secondary_unmatched
                       = levels[i].secondary_unmatched
                             \ {f.secondary : f \in stored}
                /\ levels[i].fixed_points \subseteq levels[j].fixed_points
                /\ stored # {} <=>
                       (levels[j].primary_unmatched
                            # levels[i].primary_unmatched
                        /\ levels[j].secondary_unmatched
                            # levels[i].secondary_unmatched)

\* Diff has ended after two rigor levels on programs with flow graphs; the
\* first level stored nothing, and the second saw the unmatched flow graphs
\* that the first had seen.
UnmatchedNeverGrowsWitness ==
    /\ pc = "done"
    /\ Len(levels) = 2
    /\ levels[1].primary_unmatched # {}
    /\ levels[1].secondary_unmatched # {}
    /\ levels[2].primary_unmatched = levels[1].primary_unmatched
    /\ levels[2].secondary_unmatched = levels[1].secondary_unmatched

\* C17: for every fixed point the propagation loops visit, the children
\* handed to the step are, on each side, exactly the flow graphs that a
\* non-duplicate out-edge of the fixed point's call-graph vertex leads to
\* and that have no fixed point yet, and the parents exactly the unmatched
\* sources of its non-duplicate in-edges; a neighbour that only duplicate
\* edges reach is no candidate, and a candidate is in the set once however
\* many edges reach it.
CandidateSets ==
    [][(pc \in {"children", "parents"} /\ cursor' # cursor /\ cursor' # 0) =>
           LET fixed_point ==
                   CHOOSE f \in context.fixed_points_ : f.primary = cursor'
               Candidates(call_graph, vertex, flow_graphs) ==
                   {v \in Vertices(call_graph) :
                       /\ flow_graphs[v] = NoFixedPoint
                       /\ IF pc = "children"
                          THEN Edge(vertex, v, FALSE) \in call_graph.edges
                          ELSE Edge(v, vertex, FALSE) \in call_graph.edges}
               primary ==
                   Candidates(primary_call_graph_, fixed_point.primary,
                              context.primary_flow_graphs_)
               secondary ==
                   Candidates(secondary_call_graph_, fixed_point.secondary,
                              context.secondary_flow_graphs_)
           IN  IF primary # {} /\ secondary # {}
               THEN /\ last_call'.kind = pc
                    /\ last_call'.parent = fixed_point
                    /\ last_call'.primary = primary
                    /\ last_call'.secondary = secondary
                    /\ Cardinality(last_call'.primary) <= MaxFunctions
               ELSE last_call' = last_call /\ context' = context]_vars

\* The parents loop reached the fixed point (2, 2): in the primary call
\* graph only a duplicate edge leads from 2 to 1, so the children loop made
\* no call for it; in the secondary call graph two edges lead from 1 to 2,
\* one of them duplicate, and 1 is a parent candidate once.
CandidateSetsWitness ==
    /\ primary_call_graph_ = BackCalls(2)
    /\ secondary_call_graph_ = Star(2)
    /\ pc = "parents"
    /\ last_call.kind = "parents"
    /\ last_call.parent.primary = 2
    /\ last_call.parent.secondary = 2
    /\ last_call.primary = {1}
    /\ last_call.secondary = {1}

\* C18: the propagation loop of a rigor level visits the fixed points of the
\* whole store, those of earlier levels too; it invokes the active step for
\* a fixed point only with candidates on both sides, and with the list of
\* the current level as the remaining steps; it is left only after a pass
\* whose children loop and parents loop each visited every fixed point of
\* the store and in which no fixed point was added.
PropagationLoop ==
    [][/\ (last_call' # last_call
               /\ last_call'.kind \in {"children", "parents"}) =>
              /\ last_call'.primary # {}
              /\ last_call'.secondary # {}
              /\ last_call'.parent \in context.fixed_points_
              /\ last_call'.matching_steps = matching_steps_for_current_level
              /\ last_call'.step = Head(matching_steps_for_current_level)
       /\ pc' = "callref" =>
              LET level == levels[Len(levels)]
              IN  /\ pc \in {"parents", "callref"}
                  /\ pc = "parents" =>
                         /\ level.visited.children = context.fixed_points_
                         /\ level.visited.parents = context.fixed_points_
                         /\ level.pass_began_with = context.fixed_points_
                         /\ level.fixed_points \subseteq level.visited.children
                         /\ ~more_fixed_points_discovered
      ]_vars

\* The loop of the second rigor level was left: its last pass visited the
\* fixed point of the first level and one that the second level added.
PropagationLoopWitness ==
    /\ pc = "callref"
    /\ Len(levels) = 2
    /\ passes >= 2
    /\ levels[2].fixed_points # {}
    /\ levels[2].visited.parents \ levels[2].fixed_points # {}
    /\ levels[2].visited.parents = context.fixed_points_

FlowGraphInfos ==
    Succeeded(reader) =>
        LET before == reader.before_stubs
            stubs == {reader.call_graph.vertices[a].flow_graph :
                        a \in {x \in DOMAIN before :
                                 before[x].flow_graph = NoFlowGraph}}
            loaded == reader.flow_graphs \ stubs
        IN  /\ {i.address : i \in reader.flow_graph_infos}
                   = {f.address : f \in loaded}
            /\ \A i, j \in reader.flow_graph_infos :
                   i.address = j.address => i = j
            /\ \A f \in loaded :
                   \E i \in reader.flow_graph_infos :
                       /\ i.address = f.address
                       /\ i.basic_block_count = Len(f.instructions)
                       /\ i.edge_count = Len(f.edges)
                       /\ i.instruction_count = Sum(f.instructions)

(***************************************************************************)
(* C21: in the confidence lookup "basicBlock: propagation (size==1)"       *)
(* carries 0.0 and "function: call reference matching" carries 0.75,       *)
(* whatever the registry holds for these names; every other registered     *)
(* name carries its registry value.  A histogram entry whose name is in    *)
(* neither adds nothing to the numerator of the weighted mean and its full *)
(* count to the denominator.  The whole-program similarity is the capped   *)
(* weighted sum times that confidence, so it never exceeds it.             *)
(***************************************************************************)
ConfidenceOverrides ==
    LET histogram == caller_histogram
        Weight(name) ==
            IF name = "basicBlock: propagation (size==1)" THEN 0
            ELSE IF name = "function: call reference matching" THEN 750
            ELSE StepConfidences[name]
        known ==
            {name \in DOMAIN histogram :
                name \in DOMAIN StepConfidences \cup
                    {"basicBlock: propagation (size==1)",
                     "function: call reference matching"}}
        numerator == Total([name \in known |-> histogram[name] * Weight(name)])
        denominator == Total(histogram)
        expected ==
            IF denominator = 0
            THEN 0
            ELSE Over(FromInt(1),
                      FromInt(1) + Exp((-(numerator \div denominator - 500))
                                       * 10))
    IN  /\ GetConfidence(histogram) = expected
        /\ program_similarity # NoValue => program_similarity <= expected

\* The whole-program similarity was computed from a histogram that holds
\* both names set after the registry and a name that is in neither.
ConfidenceOverridesWitness ==
    /\ program_similarity # NoValue
    /\ {"basicBlock: propagation (size==1)",
        "function: call reference matching", "function: manual"}
           \subseteq DOMAIN caller_histogram
    /\ "function: manual" \notin DOMAIN Confidences
    /\ StepConfidences["basicBlock: propagation (size==1)"] # 0
    /\ GetConfidence(caller_histogram) > 0

(***************************************************************************)
(* C22: a run of the configuration utility changes a file only if it has  *)
(* --config set, none of --print_only, --help_settings and --per_user set, *)
(* the file named by --config loaded, and every positional argument names  *)
(* a setting; it then changes no other file.  Every other run leaves the   *)
(* files as they were.  When a run that meets the conditions serializes    *)
(* and writes without an error, the file holds the loaded settings with,   *)
(* for every setting named, the value of the last argument naming it.      *)
(***************************************************************************)
ConfigRewrite ==
    [][LET run == config_setup'
           files == config_setup.files
           Recognized(arg) ==
               \E name \in string_settings :
                   \/ arg = <<name>>
                   \/ Len(arg) >= 2 /\ arg[1] = name /\ arg[2] = "="
           rewrites ==
               /\ run.flags.config # ""
               /\ ~run.flags.print_only
               /\ ~run.flags.help_settings
               /\ ~run.flags.per_user
               /\ files[run.flags.config].kind = "json"
               /\ \A i \in DOMAIN run.positional :
                      Recognized(run.positional[i])
           Naming(name) ==
               {i \in DOMAIN run.positional : run.positional[i][1] = name}
           Last(name) ==
               CHOOSE i \in Naming(name) : \A j \in Naming(name) : j <= i
           expected ==
               [name \in string_settings |->
                   IF Naming(name) = {}
                   THEN files[run.flags.config].config[name]
                   ELSE SubSeq(run.positional[Last(name)], 3,
                               Len(run.positional[Last(name)]))]
       IN  run.status # "none" =>
               /\ run.files # files =>
                      /\ rewrites
                      /\ \A name \in FileNames \ {run.flags.config} :
                             run.files[name] = files[name]
               /\ ~rewrites =>
                      /\ run.files = files
                      /\ run.io \in {"none", "serialization fails"}
               /\ rewrites => run.io # "none"
               /\ (rewrites /\ run.io = "ok") =>
                      /\ run.status = "Ok"
                      /\ run.files[run.flags.config]
                             = [kind |-> "json", config |-> expected]]_vars

\* A run with two settings has rewritten a file that held no setting, and
\* the other file is as it was.
ConfigRewriteWitness ==
    /\ config_setup.status = "Ok"
    /\ config_setup.io = "ok"
    /\ config_setup.flags.config = "bindiff.json"
    /\ Len(config_setup.positional) = 2
    /\ config_setup.files["bindiff.json"].kind = "json"
    /\ config_setup.files["bindiff.json"].config["directory"]
           = <<"/opt/bindiff">>
    /\ config_setup.files["bindiff.json"].config["ui.server"]
           = <<"localhost", "=", "2000">>
    /\ config_setup.files["other.json"] = Garbage

(***************************************************************************)
(* C23: every decoder begins by resetting the call graph, the flow-graph   *)
(* set and flow_graph_infos.  So whatever the containers held, a read that *)
(* invoked a decoder leaves in them what the same read leaves in           *)
(* containers that were never used: nothing of an earlier read stays.      *)
(* After a success, also of the legacy decoder after the new-format        *)
(* decoder failed, the call graph has the functions of the file and the    *)
(* flow-graph set its flow graphs plus the stubs.  A read that invoked no  *)
(* decoder leaves the containers as they were.  No read removes anything   *)
(* from the instruction cache: it grows by what the read interned.         *)
(***************************************************************************)
DecodersReset ==
    /\ [](LET file == read_file
              fresh == IF reader.entry = "Read"
                       THEN Read(file, Begin(NewReader, "Read"))
                       ELSE ReadGoogle(file, Begin(NewReader, "ReadGoogle"))
              program == file.program
              decoded ==
                  Invocations(reader, NewFormatDecoders \cup LegacyDecoders)
                      # {}
          IN  /\ decoded =>
                     /\ reader.status = fresh.status
                     /\ reader.call_graph = fresh.call_graph
                     /\ reader.flow_graphs = fresh.flow_graphs
                     /\ reader.flow_graph_infos = fresh.flow_graph_infos
              /\ Succeeded(reader) =>
                     /\ decoded
                     /\ DOMAIN reader.call_graph.vertices
                            = DOMAIN program.functions
                     /\ reader.flow_graphs \subseteq
                            Range(program.flow_graphs) \cup
                            {FlowGraph(a, <<>>, <<>>, {}) :
                                 a \in DOMAIN program.functions}
                     /\ \A f \in Range(program.flow_graphs) :
                            f.instructions # <<>> => f \in reader.flow_graphs
                     /\ {i.address : i \in reader.flow_graph_infos} \subseteq
                            {f.address : f \in Range(program.flow_graphs)})
    /\ [][LET after == reader'
          IN  /\ Invocations(after, NewFormatDecoders \cup LegacyDecoders)
                     = {} =>
                     /\ Failed(after)
                     /\ after.call_graph = reader.call_graph
                     /\ after.flow_graphs = reader.flow_graphs
                     /\ after.flow_graph_infos = reader.flow_graph_infos
              /\ reader.instruction_cache \subseteq after.instruction_cache
              /\ after.instruction_cache \subseteq
                     reader.instruction_cache \cup
                     UNION {f.mnemonics :
                                f \in Range(read_file'.program.flow_graphs)}
              /\ UNION {f.mnemonics : f \in after.flow_graphs} \subseteq
                     after.instruction_cache]_vars

\* After a read of a larger program, the legacy decoder has read a smaller
\* one, the new-format decoder having failed on the file: the containers
\* hold the smaller program alone, the cache the mnemonics of both.
DecodersResetWitness ==
    /\ Succeeded(reader)
    /\ Invocations(reader, NewFormatDecoders) # {}
    /\ Invocations(reader, LegacyDecoders) # {}
    /\ read_file.program = ProgramB
    /\ reader.flow_graphs = Range(ProgramB.flow_graphs)
    /\ DOMAIN reader.call_graph.vertices = {16}
    /\ reader.instruction_cache = {"mov", "call", "ret"}

(***************************************************************************)
(* C24: a fixed point is a library match when its primary or its secondary *)
(* flow graph is a library function, and a non-library match otherwise.    *)
(* Count adds its function, basic-block, instruction and edge matches to   *)
(* the counters of that kind and leaves those of the other kind at 0.  So  *)
(* after GetCountsAndHistogram every library counter is the sum over the   *)
(* library matches, every non-library counter the sum over the others,     *)
(* and the two function-match counters add up to the number of fixed       *)
(* points.                                                                 *)
(***************************************************************************)
LibraryOrNot ==
    count_calls > 0 =>
        LET IsLibrary(f) ==
                \/ program1.flow_graphs[f.primary].library
                \/ program2.flow_graphs[f.secondary].library
            Of(library) ==
                {f \in scored_fixed_points : IsLibrary(f) = library}
            Kind(library) ==
                IF library THEN "(library)" ELSE "(non-library)"
            Other(library) ==
                IF library THEN "(non-library)" ELSE "(library)"
            Prefixes ==
                {"function matches ", "basicBlock matches ",
                 "instruction matches ", "flowGraph edge matches "}
            Counted(f) ==
                CountFixedPoint(f, program1.flow_graphs, program2.flow_graphs,
                                <<>>).counts
        IN  /\ caller_counts["function matches (library)"]
                   + caller_counts["function matches (non-library)"]
                   = Cardinality(scored_fixed_points)
            /\ \A library \in BOOLEAN :
                   /\ caller_counts["function matches " \o Kind(library)]
                          = Cardinality(Of(library))
                   /\ caller_counts["basicBlock matches " \o Kind(library)]
                          = Total([f \in Of(library) |->
                                      Cardinality(
                                          f.basic_block_fixed_points)])
                   /\ caller_counts["instruction matches " \o Kind(library)]
                          = Total([f \in Of(library) |->
                                      Total([b \in f.basic_block_fixed_points
                                                |-> b.instruction_matches])])
                   /\ caller_counts["flowGraph edge matches "
                                        \o Kind(library)]
                          = Total([f \in Of(library) |->
                                      EdgeMatches(
                                          program1.flow_graphs[f.primary],
                                          program2.flow_graphs[f.secondary],
                                          f.basic_block_fixed_points)])
                   /\ \A f \in Of(library) :
                          /\ Counted(f)["function matches " \o Kind(library)]
                                 = 1
                          /\ \A prefix \in Prefixes :
                                 Counted(f)[prefix \o Other(library)] = 0

\* Two fixed points were counted: one of two non-library functions, and one
\* whose primary is a non-library function and whose secondary is a library
\* function, with basic blocks, instructions and an edge matched.
LibraryOrNotWitness ==
    /\ count_calls > 0
    /\ Cardinality(scored_fixed_points) = 2
    /\ \E f \in scored_fixed_points :
           /\ ~program1.flow_graphs[f.primary].library
           /\ program2.flow_graphs[f.secondary].library
    /\ caller_counts["function matches (library)"] = 1
    /\ caller_counts["function matches (non-library)"] = 1
    /\ caller_counts["basicBlock matches (library)"] > 0
    /\ caller_counts["instruction matches (library)"] > 0
    /\ caller_counts["flowGraph edge matches (library)"] > 0
    /\ caller_counts["basicBlock matches (non-library)"] > 0

(***************************************************************************)
(* C25: GetCountsAndHistogram assigns every count it reports and only adds *)
(* to the histogram it is given.  After the first call on an empty         *)
(* histogram the histogram values add up to the number of function fixed   *)
(* points plus the number of their basic-block fixed points.  After the    *)
(* n-th call with the same arguments on the same objects the counts are    *)
(* those of the first call, whatever the Counts held before, and every     *)
(* histogram entry is n times its value after the first call.              *)
(***************************************************************************)
CountsOverwrittenHistogramAdded ==
    count_calls > 0 =>
        LET first ==
                GetCountsAndHistogram(program1.flow_graphs,
                                      program2.flow_graphs,
                                      scored_fixed_points, <<>>, <<>>)
            stale ==
                [k \in DOMAIN first.counts \cup {"stale"} |-> 7]
            again ==
                GetCountsAndHistogram(program1.flow_graphs,
                                      program2.flow_graphs,
                                      scored_fixed_points, caller_histogram,
                                      stale)
            fixed_points ==
                Cardinality(scored_fixed_points)
                    + Total([f \in scored_fixed_points |->
                                Cardinality(f.basic_block_fixed_points)])
        IN  /\ Total(first.histogram) = fixed_points
            /\ caller_counts = first.counts
            /\ DOMAIN caller_histogram = DOMAIN first.histogram
            /\ \A name \in DOMAIN caller_histogram :
                   caller_histogram[name] = count_calls * first.histogram[name]
            /\ Total(caller_histogram) = count_calls * fixed_points
            /\ \A k \in DOMAIN first.counts : again.counts[k] = first.counts[k]
            /\ again.counts["stale"] = 7
            /\ \A name \in DOMAIN caller_histogram :
                   again.histogram[name]
                       = (count_calls + 1) * first.histogram[name]

\* GetCountsAndHistogram was called twice on the same objects with two
\* fixed points that have basic-block fixed points of one step: the entry
\* of that step is twice what one call adds, and the counts are those of
\* one call.
CountsOverwrittenHistogramAddedWitness ==
    /\ count_calls = 2
    /\ Cardinality(scored_fixed_points) = 2
    /\ caller_counts["function matches (library)"]
           + caller_counts["function matches (non-library)"] = 2
    /\ "basicBlock: hash matching" \in DOMAIN caller_histogram
    /\ caller_histogram["basicBlock: hash matching"] >= 4
    /\ caller_counts["basicBlock matches (non-library)"]
           + caller_counts["basicBlock matches (library)"]
           = caller_histogram["basicBlock: hash matching"] \div 2

====
